---- MODULE Spec2Model ----
(***************************************************************************)
(* Model of the capacity dashboard's scheduling core (src/app.py, the      *)
(* JavaScript embedded in the page template):                              *)
(*   - the hangar planner, assignForPeriod, as a state machine with one    *)
(*     step per loop iteration of the function;                            *)
(*   - the calendar and load aggregation (getWeekList,                     *)
(*     computeWeeklyLoadsDetailed) as operators applied by actions.        *)
(* Dates are day numbers; day 0 is a Monday, so d % 7 is the weekday       *)
(* (0 = Monday .. 6 = Sunday).  JavaScript arrays are 0-based, sequences   *)
(* here are 1-based: H[1] is the code's H[0], D[3] is the code's D[2].     *)
(***************************************************************************)
EXTENDS Integers, Sequences, FiniteSets, TLC

VARIABLES
    \* ---- globals of the page script
    projects,         \* const projects (confirmed)
    potentialProjects,\* const potentialProjects
    projectsActual,   \* const projectsActual
    weekLabels,       \* const weekLabels = getWeekList()
    dataWConfirmed,   \* dataWConfirmed[key].series for the one department key
    dataWPotential,   \* dataWPotential[key].series for the same key
    dataWActual,      \* dataWActual[key].series
    monthLabels,      \* const monthLabels = getMonthList()
    dataMConfirmed, dataMPotential, dataMActual,  \* the monthly series
    loadPc,           \* position of the page script while it builds the series
    overrides,        \* const bayOverrides (an injected list in the model)
    \* ---- parameters and chart state of the page
    departmentCapacities, \* const departmentCapacities: <<[key, headcount], ...>>
    PRODUCTIVITY_FACTOR,  \* in hundredths: 85 is 0.85
    HOURS_PER_FTE,
    currentKey, currentPeriod, showPotential,
    utilData,             \* chart.data.datasets[4].data
    lastEvent,            \* the input event handled last: [target, raw, nan]
    \* ---- locals of assignForPeriod
    aircraftList,     \* the argument
    remaining,        \* aircraftList.slice(), spliced by the override loop
    ovrIdx,           \* position of the for..of loop over bayOverrides
    H, D,             \* the bays: H = <<H1, H2>>, D = <<D1, D2, D3>>
    conflicts,
    heavies, m757s, smalls,
    dSplitIdx,        \* 0 is the code's null, 1 is D[0], 2 is D[1]
    pc,               \* position inside assignForPeriod
    \* ---- the planner grid
    periodIndex,      \* the index i of the period being drawn
    planIncPot,       \* planIncPot.checked
    \* ---- the what-if panel
    impactResult,     \* what the last click on impactRun rendered
    \* ---- the data store (data_store.py)
    table,            \* the committed rows of table projects
    nextId,           \* the id AUTOINCREMENT gives next
    storePc,          \* position inside replace_dataset
    storeLock,        \* the connection holding the database's write lock
    pending,          \* the rows as the outer connection of replace_dataset sees them
    todo,             \* rows of replace_dataset not yet handed to upsert_project
    lastCall          \* the call made last, its arguments and its outcome

hangarVars == <<overrides, aircraftList, remaining, ovrIdx, H, D, conflicts,
                heavies, m757s, smalls, dSplitIdx, pc>>
loadVars == <<projects, potentialProjects, projectsActual, weekLabels,
              dataWConfirmed, dataWPotential, dataWActual, monthLabels,
              dataMConfirmed, dataMPotential, dataMActual, loadPc>>
planVars == <<periodIndex, planIncPot>>
impactVars == <<impactResult>>
storeVars == <<table, nextId, storePc, storeLock, pending, todo, lastCall>>
pageVars == <<departmentCapacities, PRODUCTIVITY_FACTOR, HOURS_PER_FTE, currentKey,
              currentPeriod, showPotential, utilData, lastEvent>>
vars == <<departmentCapacities, PRODUCTIVITY_FACTOR, HOURS_PER_FTE, currentKey,
          currentPeriod, showPotential, utilData, lastEvent, projects, potentialProjects, projectsActual, weekLabels,
          dataWConfirmed, dataWPotential, dataWActual, monthLabels,
          dataMConfirmed, dataMPotential, dataMActual, loadPc, overrides, aircraftList, remaining, ovrIdx, H, D,
          conflicts, heavies, m757s, smalls, dSplitIdx, pc, periodIndex, planIncPot,
          impactResult, table, nextId, storePc, storeLock, pending, todo, lastCall>>

----------------------------------------------------------------------------
(* Bounds of the model *)

\* longest active-aircraft list drawn when no override is configured
MaxAuto == 9
\* most aircraft plus overrides drawn together when overrides are configured
MaxPinSize == 4
\* last day number a project's induction or delivery is drawn from
MaxDay == 14

----------------------------------------------------------------------------
(* Generic helpers *)

Range(s) == {s[i] : i \in DOMAIN s}

\* Array.prototype.filter
RECURSIVE Filter(_, _)
Filter(s, c) ==
    IF s = <<>> THEN <<>>
    ELSE IF Head(s).cls = c THEN <<Head(s)>> \o Filter(Tail(s), c)
    ELSE Filter(Tail(s), c)

\* Array.prototype.splice(idx, 1): the array without its idx-th element
RemoveAt(s, idx) == [i \in 1..(Len(s) - 1) |-> IF i < idx THEN s[i] ELSE s[i + 1]]

Min(a, b) == IF a < b THEN a ELSE b

Max(a, b) == IF a > b THEN a ELSE b

----------------------------------------------------------------------------
(* Calendar *)

\* an absent date (undefined ovr.from / ovr.to)
NoDate == -1

\* parseDateLocalISO of an empty or unparseable text: new Date(NaN), which
\* compares false with every date
InvalidDate == -2

\* mondayOf(d): day = (getDay() + 6) % 7 days back
mondayOf(d) == d - (d % 7)

\* new Date(): the day the page is opened; the week starting at day 7
Today == 9

\* getWeekList(): Mondays from mondayOf(min induction) while <= max delivery;
\* without projects the single Monday of the current week
AllProjects == projects \o potentialProjects \o projectsActual

\* WeeksFrom with the loop test cur < maxD
RECURSIVE WeeksFrom_strict(_, _)
WeeksFrom_strict(cur, maxD) ==
    IF cur < maxD THEN <<cur>> \o WeeksFrom_strict(cur + 7, maxD) ELSE <<>>

RECURSIVE WeeksFrom(_, _)
WeeksFrom(cur, maxD) == IF cur <= maxD THEN <<cur>> \o WeeksFrom(cur + 7, maxD) ELSE <<>>

\* minD after exp(): the first induction if that is an invalid date (no later
\* one compares smaller), else the smallest of the valid ones
MinInduction(ps) ==
    LET S == {p.induction : p \in Range(ps)} \ {InvalidDate}
    IN IF Head(ps).induction = InvalidDate THEN InvalidDate
       ELSE CHOOSE a \in S : \A b \in S : a <= b

\* maxD after exp(), likewise
MaxDelivery(ps) ==
    LET S == {p.delivery : p \in Range(ps)} \ {InvalidDate}
    IN IF Head(ps).delivery = InvalidDate THEN InvalidDate
       ELSE CHOOSE a \in S : \A b \in S : a >= b

\* while (cur <= maxD) is false at once when cur or maxD is an invalid date
getWeekList(ps) ==
    IF ps = <<>> THEN <<mondayOf(Today)>>
    ELSE IF MinInduction(ps) = InvalidDate \/ MaxDelivery(ps) = InvalidDate THEN <<>>
    ELSE WeeksFrom(mondayOf(MinInduction(ps)), MaxDelivery(ps))

\* the calendar the day numbers stand for: day 0 is Monday 2025-09-22, and the
\* first days of September, October, November and December 2025 are
MonthStarts == <<-21, 9, 40, 70>>

\* firstOfMonth(d)
firstOfMonth(d) ==
    LET S == {m \in Range(MonthStarts) : m <= d}
    IN CHOOSE m \in S : \A n \in S : n <= m

\* the first day of the month after the one that starts at m
nextMonth(m) ==
    LET S == {n \in Range(MonthStarts) : n > m}
    IN CHOOSE n \in S : \A k \in S : n <= k

\* lastOfMonth(d)
lastOfMonth(d) == nextMonth(firstOfMonth(d)) - 1

\* isWorkday(d): getDay() in 1..5
isWorkday(d) == d % 7 <= 4

\* workdaysInclusive(a, b)
workdaysInclusive(a, b) == Cardinality({d \in a..b : isWorkday(d)})

RECURSIVE MonthsFrom(_, _)
MonthsFrom(cur, end) == IF cur <= end THEN <<cur>> \o MonthsFrom(nextMonth(cur), end) ELSE <<>>

\* getMonthList(): first days of the months from the month of the earliest
\* induction to the month of the latest delivery
getMonthList(ps) ==
    IF ps = <<>> THEN <<firstOfMonth(Today)>>
    ELSE IF MinInduction(ps) = InvalidDate \/ MaxDelivery(ps) = InvalidDate THEN <<>>
    ELSE MonthsFrom(firstOfMonth(MinInduction(ps)), firstOfMonth(MaxDelivery(ps)))

\* periodBoundsForIndex(i) for currentPeriod = 'weekly'
periodBoundsForIndex(i) ==
    LET start == mondayOf(weekLabels[i]) IN [start |-> start, end |-> start + 6]

----------------------------------------------------------------------------
(* Load aggregation *)

\* hours are JavaScript numbers; hrs/n is kept exact as the pair <<hrs, n>>
Zero == <<0, 1>>

RECURSIVE GCD(_, _)
GCD(a, b) == IF b = 0 THEN a ELSE GCD(b, a % b)

\* the fraction in lowest terms (numerator >= 0, denominator > 0)
Norm(x) == LET g == GCD(x[1], x[2]) IN <<x[1] \div g, x[2] \div g>>

RatAdd(x, y) == Norm(<<x[1] * y[2] + y[1] * x[2], x[2] * y[2]>>)
RatEq(x, y) == x[1] * y[2] = y[1] * x[2]

RECURSIVE RatSum(_)
RatSum(series) == IF series = <<>> THEN Zero ELSE RatAdd(Head(series), RatSum(Tail(series)))

\* firstLabelFrom with the test L > a
firstLabelFrom_strict(labels, a) ==
    LET I == {i \in DOMAIN labels : labels[i] > a}
    IN IF I = {} THEN 0 ELSE CHOOSE i \in I : \A j \in I : i <= j

\* s: the first i with labels[i] >= a; 0 is the code's -1
firstLabelFrom(labels, a) ==
    LET I == {i \in DOMAIN labels : labels[i] >= a}
    IN IF I = {} THEN 0 ELSE CHOOSE i \in I : \A j \in I : i <= j

\* e: the last i with labels[i] <= b; 0 is the code's -1
lastLabelUpTo(labels, b) ==
    LET I == {i \in DOMAIN labels : labels[i] <= b}
    IN IF I = {} THEN 0 ELSE CHOOSE i \in I : \A j \in I : i >= j

\* body of the loop over arr in computeWeeklyLoadsDetailed: total afterwards
addWeeklyLoad(total, p, labels) ==
    LET s == firstLabelFrom(labels, p.induction)
        e == lastLabelUpTo(labels, p.delivery)
    IN IF p.hours = 0 THEN total
       ELSE IF s # 0 /\ e # 0 /\ e >= s
       THEN [w \in DOMAIN total |->
                IF s <= w /\ w <= e THEN RatAdd(total[w], <<p.hours, e - s + 1>>)
                ELSE total[w]]
       ELSE total

RECURSIVE weeklyLoadsFrom(_, _, _)
weeklyLoadsFrom(arr, labels, total) ==
    IF arr = <<>> THEN total
    ELSE weeklyLoadsFrom(Tail(arr), labels, addWeeklyLoad(total, Head(arr), labels))

\* computeWeeklyLoadsDetailed(arr, key, labels).series
computeWeeklyLoadsDetailed(arr, labels) ==
    weeklyLoadsFrom(arr, labels, [i \in DOMAIN labels |-> Zero])

\* const end = (a>today) ? planned : (planned<today ? planned : today); today is
\* the present moment of day Today, a and planned are midnights
actualEnd(p) ==
    IF p.induction > Today THEN p.delivery ELSE Min(p.delivery, Today)

\* body of the loop over arr in computeWeeklyLoadsActual
addWeeklyActual(total, p, labels) ==
    LET end == actualEnd(p)
        s == firstLabelFrom(labels, p.induction)
        e == lastLabelUpTo(labels, end)
    IN IF p.hours = 0 THEN total
       ELSE IF end < p.induction THEN total
       ELSE IF s # 0 /\ e # 0 /\ e >= s
       THEN [w \in DOMAIN total |->
                IF s <= w /\ w <= e THEN RatAdd(total[w], <<p.hours, e - s + 1>>)
                ELSE total[w]]
       ELSE total

RECURSIVE weeklyActualFrom(_, _, _)
weeklyActualFrom(arr, labels, total) ==
    IF arr = <<>> THEN total
    ELSE weeklyActualFrom(Tail(arr), labels, addWeeklyActual(total, Head(arr), labels))

\* computeWeeklyLoadsActual(arr, key, labels).series
computeWeeklyLoadsActual(arr, labels) ==
    weeklyActualFrom(arr, labels, [i \in DOMAIN labels |-> Zero])

\* hoursMonth for the project span start..end in the month labelled mStart:
\* hrs * (overlapWD / projWD), or nothing when the overlap is empty
monthShare(total, hrs, start, end, mStart) ==
    LET projWD == Max(1, workdaysInclusive(start, end))
        overlapStart == Max(mStart, start)
        overlapEnd == Min(lastOfMonth(mStart), end)
    IN IF overlapEnd >= overlapStart
       THEN RatAdd(total, <<hrs * workdaysInclusive(overlapStart, overlapEnd), projWD>>)
       ELSE total

\* body of the loop over arr in computeMonthlyLoadsDetailed
addMonthlyLoad(total, p, labels) ==
    IF p.hours = 0 THEN total
    ELSE [i \in DOMAIN total |->
             monthShare(total[i], p.hours, p.induction, p.delivery, labels[i])]

RECURSIVE monthlyLoadsFrom(_, _, _)
monthlyLoadsFrom(arr, labels, total) ==
    IF arr = <<>> THEN total
    ELSE monthlyLoadsFrom(Tail(arr), labels, addMonthlyLoad(total, Head(arr), labels))

\* computeMonthlyLoadsDetailed(arr, key, monthLabels).series
computeMonthlyLoadsDetailed(arr, labels) ==
    monthlyLoadsFrom(arr, labels, [i \in DOMAIN labels |-> Zero])

\* body of the loop over arr in computeMonthlyLoadsActual
addMonthlyActual(total, p, labels) ==
    IF p.hours = 0 THEN total
    ELSE IF actualEnd(p) < p.induction THEN total
    ELSE [i \in DOMAIN total |->
             monthShare(total[i], p.hours, p.induction, actualEnd(p), labels[i])]

RECURSIVE monthlyActualFrom(_, _, _)
monthlyActualFrom(arr, labels, total) ==
    IF arr = <<>> THEN total
    ELSE monthlyActualFrom(Tail(arr), labels, addMonthlyActual(total, Head(arr), labels))

\* computeMonthlyLoadsActual(arr, key, monthLabels).series
computeMonthlyLoadsActual(arr, labels) ==
    monthlyActualFrom(arr, labels, [i \in DOMAIN labels |-> Zero])

\* const weekLabels = getWeekList()
BuildWeekLabels ==
    /\ loadPc = "labels"
    /\ weekLabels' = getWeekList(AllProjects)
    /\ loadPc' = "months"
    /\ UNCHANGED <<projects, potentialProjects, projectsActual, dataWConfirmed,
                   dataWPotential, dataWActual, monthLabels, dataMConfirmed,
                   dataMPotential, dataMActual>>
    /\ UNCHANGED hangarVars
    /\ UNCHANGED <<pageVars, planVars, impactVars, storeVars>>

\* const monthLabels = getMonthList()
BuildMonthLabels ==
    /\ loadPc = "months"
    /\ monthLabels' = getMonthList(AllProjects)
    /\ loadPc' = "loads"
    /\ UNCHANGED <<projects, potentialProjects, projectsActual, weekLabels, dataWConfirmed,
                   dataWPotential, dataWActual, dataMConfirmed, dataMPotential, dataMActual>>
    /\ UNCHANGED hangarVars
    /\ UNCHANGED <<pageVars, planVars, impactVars, storeVars>>

\* departmentCapacities.forEach(d => { cw, pw, aw, cm, pm, am; dataWConfirmed[d.key] = ... })
LoadDepartment ==
    /\ loadPc = "loads"
    /\ dataWConfirmed' = computeWeeklyLoadsDetailed(projects, weekLabels)
    /\ dataWPotential' = computeWeeklyLoadsDetailed(potentialProjects, weekLabels)
    /\ dataWActual' = computeWeeklyLoadsActual(projectsActual, weekLabels)
    /\ dataMConfirmed' = computeMonthlyLoadsDetailed(projects, monthLabels)
    /\ dataMPotential' = computeMonthlyLoadsDetailed(potentialProjects, monthLabels)
    /\ dataMActual' = computeMonthlyLoadsActual(projectsActual, monthLabels)
    /\ loadPc' = "ready"
    /\ UNCHANGED <<projects, potentialProjects, projectsActual, weekLabels, monthLabels>>
    /\ UNCHANGED hangarVars
    /\ UNCHANGED <<pageVars, planVars, impactVars, storeVars>>

----------------------------------------------------------------------------
(* Capacity, utilization and the parameter inputs *)

RatMul(x, y) == Norm(<<x[1] * y[1], x[2] * y[2]>>)
\* x / y for y > 0
RatDiv(x, y) == Norm(<<x[1] * y[2], x[2] * y[1]>>)
\* x <= y, denominators being positive
\* (the common factors of the two sides are divided out first)
RatLeq(x, y) ==
    LET gn == IF x[1] = 0 /\ y[1] = 0 THEN 1 ELSE GCD(x[1], y[1])
        gd == GCD(x[2], y[2])
    IN (x[1] \div gn) * (y[2] \div gd) <= (y[1] \div gn) * (x[2] \div gd)

\* departmentCapacities.find(x => x.key === key)?.headcount || 0
headcountOf(depts, key) ==
    LET I == {i \in DOMAIN depts : depts[i].key = key}
    IN IF I = {} THEN 0 ELSE depts[CHOOSE i \in I : \A j \in I : i <= j].headcount

\* workdaysInMonth(d)
workdaysInMonth(d) == workdaysInclusive(firstOfMonth(d), lastOfMonth(d))

\* capacityArray with the weekly capacity divided by the productivity factor
capacityArray_dividesByFactor(headcount, hours, pf, labels, period) ==
    LET capPerWeek == <<headcount * hours * 100, pf>>
    IN [i \in DOMAIN labels |->
           IF period = "weekly" THEN capPerWeek
           ELSE RatMul(RatDiv(capPerWeek, <<5, 1>>), <<workdaysInMonth(labels[i]), 1>>)]

\* capacityArray(key, labels, period); pf in hundredths
capacityArray(headcount, hours, pf, labels, period) ==
    LET capPerWeek == <<headcount * hours * pf, 100>>
    IN [i \in DOMAIN labels |->
           IF period = "weekly" THEN capPerWeek
           ELSE RatMul(RatDiv(capPerWeek, <<5, 1>>), <<workdaysInMonth(labels[i]), 1>>)]

\* utilizationOf with capacity and load exchanged
utilizationOf_inverse(load, cap) ==
    IF cap[1] # 0 /\ load[1] # 0 THEN RatDiv(RatMul(<<100, 1>>, cap), load) ELSE Zero

\* cap[i] ? (100*load/cap[i]) : 0
utilizationOf(load, cap) ==
    IF cap[1] # 0 THEN RatDiv(RatMul(<<100, 1>>, load), cap) ELSE Zero

\* utilizationArray(period, key, includePotential), the maps and parameters given
utilizationArray(conf, pot, cap, includePotential) ==
    [i \in DOMAIN conf |->
        LET load == IF includePotential
                    THEN RatAdd(conf[i], IF i \in DOMAIN pot THEN pot[i] ELSE Zero)
                    ELSE conf[i]
        IN utilizationOf(load, cap[i])]

\* chart.data.datasets[4].data as refreshDatasets sets it
refreshedUtil(depts, hours, pf, key, period, includePotential) ==
    LET labels == IF period = "weekly" THEN weekLabels ELSE monthLabels
        conf == IF period = "weekly" THEN dataWConfirmed ELSE dataMConfirmed
        pot == IF period = "weekly" THEN dataWPotential ELSE dataMPotential
    IN utilizationArray(conf, pot,
                        capacityArray(headcountOf(depts, key), hours, pf, labels, period),
                        includePotential)

\* <input type="range" id="prodFactor" min="0.50" max="1.00" step="0.01">: the
\* value the element holds when raw (in hundredths) is asked of it
rangeValue(raw) == Min(100, Max(50, raw))

\* clampHours without the upper limit
clampHours_noMax(raw) == IF raw.nan THEN 40 ELSE Max(30, raw.v)

\* const v=parseInt(e.target.value||'40',10); isNaN(v)?40:Math.min(60,Math.max(30,v))
clampHours(raw) == IF raw.nan THEN 40 ELSE Min(60, Max(30, raw.v))

\* values asked of the slider, in hundredths
SliderRaw == {0, 49, 50, 51, 85, 100, 101, 250}

\* texts typed into the hours input: no number, or an integer
HoursRaw == {[nan |-> TRUE, v |-> 0]}
            \cup {[nan |-> FALSE, v |-> n] : n \in {-5, 0, 29, 30, 45, 60, 61, 100}}

\* prodSlider.addEventListener('input', ...)
ProdSliderInput ==
    /\ \E raw \in SliderRaw :
          /\ PRODUCTIVITY_FACTOR' = rangeValue(raw)
          /\ lastEvent' = [target |-> "prodFactor", raw |-> raw, nan |-> FALSE]
    /\ utilData' = refreshedUtil(departmentCapacities, HOURS_PER_FTE, PRODUCTIVITY_FACTOR',
                                 currentKey, currentPeriod, showPotential)
    /\ UNCHANGED <<departmentCapacities, HOURS_PER_FTE, currentKey, currentPeriod, showPotential>>
    /\ UNCHANGED <<loadVars, hangarVars, planVars, impactVars, storeVars>>

\* hoursInput.addEventListener('change', ...)
HoursInputChange ==
    /\ \E raw \in HoursRaw :
          /\ HOURS_PER_FTE' = clampHours(raw)
          /\ lastEvent' = [target |-> "hoursPerFTE", raw |-> raw.v, nan |-> raw.nan]
    /\ utilData' = refreshedUtil(departmentCapacities, HOURS_PER_FTE', PRODUCTIVITY_FACTOR,
                                 currentKey, currentPeriod, showPotential)
    /\ UNCHANGED <<departmentCapacities, PRODUCTIVITY_FACTOR, currentKey, currentPeriod,
                   showPotential>>
    /\ UNCHANGED <<loadVars, hangarVars, planVars, impactVars, storeVars>>

\* sel.addEventListener('change', ...)
SelChange ==
    /\ \E i \in DOMAIN departmentCapacities : currentKey' = departmentCapacities[i].key
    /\ lastEvent' = [target |-> "disciplineSelect", raw |-> 0, nan |-> FALSE]
    /\ utilData' = refreshedUtil(departmentCapacities, HOURS_PER_FTE, PRODUCTIVITY_FACTOR,
                                 currentKey', currentPeriod, showPotential)
    /\ UNCHANGED <<departmentCapacities, PRODUCTIVITY_FACTOR, HOURS_PER_FTE, currentPeriod,
                   showPotential>>
    /\ UNCHANGED <<loadVars, hangarVars, planVars, impactVars, storeVars>>

\* chkPot.addEventListener('change', ...)
ChkPotChange ==
    /\ showPotential' \in BOOLEAN
    /\ lastEvent' = [target |-> "showPotential", raw |-> 0, nan |-> FALSE]
    /\ utilData' = refreshedUtil(departmentCapacities, HOURS_PER_FTE, PRODUCTIVITY_FACTOR,
                                 currentKey, currentPeriod, showPotential')
    /\ UNCHANGED <<departmentCapacities, PRODUCTIVITY_FACTOR, HOURS_PER_FTE, currentKey,
                   currentPeriod>>
    /\ UNCHANGED <<loadVars, hangarVars, planVars, impactVars, storeVars>>

\* periodSel.addEventListener('change', ...)
PeriodSelChange ==
    /\ currentPeriod' \in {"weekly", "monthly"}
    /\ lastEvent' = [target |-> "periodSel", raw |-> 0, nan |-> FALSE]
    /\ utilData' = refreshedUtil(departmentCapacities, HOURS_PER_FTE, PRODUCTIVITY_FACTOR,
                                 currentKey, currentPeriod', showPotential)
    /\ UNCHANGED <<departmentCapacities, PRODUCTIVITY_FACTOR, HOURS_PER_FTE, currentKey,
                   showPotential>>
    /\ UNCHANGED <<loadVars, hangarVars, planVars, impactVars, storeVars>>

----------------------------------------------------------------------------
(* Hangar planner: data *)

Classes == {"HEAVY", "M757", "SMALL"}

SlotNames == {"H1", "H2", "D1", "D2", "D3"}

EmptyBay == [kind |-> "EMPTY", slots |-> <<>>]

\* returned by slotToBay for an unknown slot name (the code's null)
NullBay == [kind |-> "null", slots |-> <<>>]

\* const bayOverrides, as the page hardcodes it
bayOverrides ==
    << [number |-> "P7611", slot |-> "H1", from |-> NoDate, to |-> NoDate],
       [number |-> "P7706", slot |-> "D2", from |-> NoDate, to |-> NoDate],
       [number |-> "P7712", slot |-> "D3", from |-> NoDate, to |-> NoDate] >>

\* findProjectByNumber(num): first in projects, else first in potentialProjects
FirstWithNumber(ps, num) ==
    LET I == {i \in DOMAIN ps : ps[i].number = num}
    IN IF I = {} THEN 0 ELSE CHOOSE i \in I : \A j \in I : i <= j

\* if (p && p.induction && p.delivery) { if (!isNaN(a) && !isNaN(b)) return ... } return true
projectInPeriod(p, periodStart, periodEnd) ==
    IF p.induction # InvalidDate /\ p.delivery # InvalidDate
    THEN ~(p.delivery < periodStart \/ p.induction > periodEnd)
    ELSE TRUE

\* isOverrideActive(ovr, periodStart, periodEnd)
isOverrideActive(ovr, periodStart, periodEnd) ==
    IF ovr.from # NoDate \/ ovr.to # NoDate
    THEN ~( (ovr.to # NoDate /\ ovr.to < periodStart)
            \/ (ovr.from # NoDate /\ ovr.from > periodEnd) )
    ELSE LET i == FirstWithNumber(projects, ovr.number)
             j == FirstWithNumber(potentialProjects, ovr.number)
         IN IF i # 0 THEN projectInPeriod(projects[i], periodStart, periodEnd)
            ELSE IF j # 0 THEN projectInPeriod(potentialProjects[j], periodStart, periodEnd)
            ELSE TRUE

\* slotToBay(slot, H, D)
slotToBay(slot, h, d) ==
    CASE slot = "H1" -> h[1]
      [] slot = "H2" -> h[2]
      [] slot = "D1" -> d[1]
      [] slot = "D2" -> d[2]
      [] slot = "D3" -> d[3]
      [] OTHER -> NullBay

\* the pair <<H, D>> after an assignment to the bay object of a slot
SetBay(h, d, slot, b) ==
    CASE slot = "H1" -> <<[h EXCEPT ![1] = b], d>>
      [] slot = "H2" -> <<[h EXCEPT ![2] = b], d>>
      [] slot = "D1" -> <<h, [d EXCEPT ![1] = b]>>
      [] slot = "D2" -> <<h, [d EXCEPT ![2] = b]>>
      [] slot = "D3" -> <<h, [d EXCEPT ![3] = b]>>
      [] OTHER -> <<h, d>>

\* takeFirstEmptyBay that takes the first candidate, EMPTY or not
takeFirstEmptyBay_anyKind(cands, h, d) == IF cands = <<>> THEN "none" ELSE Head(cands)

\* takeFirstEmptyBay(cands), cands given by slot name; "none" is the code's null
RECURSIVE takeFirstEmptyBay(_, _, _)
takeFirstEmptyBay(cands, h, d) ==
    IF cands = <<>> THEN "none"
    ELSE IF slotToBay(Head(cands), h, d).kind = "EMPTY" THEN Head(cands)
    ELSE takeFirstEmptyBay(Tail(cands), h, d)

\* findIndex that returns the last match
findIndex_last(s, num) ==
    LET I == {i \in DOMAIN s : s[i].number = num}
    IN IF I = {} THEN 0 ELSE CHOOSE i \in I : \A j \in I : i >= j

\* remaining.findIndex(a => a.number === num); 0 is the code's -1
findIndex(s, num) ==
    LET I == {i \in DOMAIN s : s[i].number = num}
    IN IF I = {} THEN 0 ELSE CHOOSE i \in I : \A j \in I : i <= j

\* the bay kind an override gives to an aircraft of class cls
\* KindOfClass that marks a pinned M757 bay like a single small one
KindOfClass_m757AsSmall(cls) ==
    CASE cls = "HEAVY" -> "HEAVY"
      [] cls = "M757" -> "SMALL1"
      [] cls = "SMALL" -> "SMALL1"
      [] OTHER -> "null"

KindOfClass(cls) ==
    CASE cls = "HEAVY" -> "HEAVY"
      [] cls = "M757" -> "M757"
      [] cls = "SMALL" -> "SMALL1"
      [] OTHER -> "null"

\* /^H[12]$/.test(slot)
IsHSlot(slot) == slot \in {"H1", "H2"}

----------------------------------------------------------------------------
(* Hangar planner: the steps of assignForPeriod *)

\* pinAircraft with the rejected aircraft dropped instead of reported
pinAircraft_dropRejected(p, slot, h, d, conf) ==
    LET bay == slotToBay(slot, h, d) IN
    IF bay = NullBay \/ bay.kind # "EMPTY" THEN <<h, d, conf>>
    ELSE IF p.cls = "HEAVY" /\ ~IsHSlot(slot) THEN <<h, d, conf>>
    ELSE LET hd == SetBay(h, d, slot, [kind |-> KindOfClass(p.cls), slots |-> <<p>>])
         IN <<hd[1], hd[2], conf>>

\* pinAircraft without the test that a HEAVY is pinned to H1 or H2
pinAircraft_noHeavyTest(p, slot, h, d, conf) ==
    LET bay == slotToBay(slot, h, d) IN
    IF bay = NullBay \/ bay.kind # "EMPTY" THEN <<h, d, Append(conf, p)>>
    ELSE LET hd == SetBay(h, d, slot, [kind |-> KindOfClass(p.cls), slots |-> <<p>>])
         IN <<hd[1], hd[2], conf>>

\* pinAircraft where a later pin evicts the occupant of a taken bay
pinAircraft_lastWins(p, slot, h, d, conf) ==
    LET bay == slotToBay(slot, h, d) IN
    IF bay = NullBay THEN <<h, d, Append(conf, p)>>
    ELSE IF p.cls = "HEAVY" /\ ~IsHSlot(slot) THEN <<h, d, Append(conf, p)>>
    ELSE LET hd == SetBay(h, d, slot, [kind |-> KindOfClass(p.cls), slots |-> <<p>>])
         IN <<hd[1], hd[2], conf \o bay.slots>>

\* body of the loop over bayOverrides once the aircraft p is spliced out of
\* remaining: the new <<H, D, conflicts>>
pinAircraft(p, slot, h, d, conf) ==
    LET bay == slotToBay(slot, h, d) IN
    IF bay = NullBay \/ bay.kind # "EMPTY" THEN <<h, d, Append(conf, p)>>
    ELSE IF p.cls = "HEAVY" /\ ~IsHSlot(slot) THEN <<h, d, Append(conf, p)>>
    ELSE IF KindOfClass(p.cls) = "null" THEN <<h, d, Append(conf, p)>>
    ELSE LET hd == SetBay(h, d, slot, [kind |-> KindOfClass(p.cls), slots |-> <<p>>])
         IN <<hd[1], hd[2], conf>>

\* heavyBay that never looks at H[1]
heavyBay_onlyFirst(h, d) == takeFirstEmptyBay(<<"H1">>, h, d)

\* the bay a HEAVY takes: H[0] if EMPTY, else H[1] if EMPTY, else null
heavyBay(h, d) == takeFirstEmptyBay(<<"H1", "H2">>, h, d)

\* m757Bay with D[2] left out of the candidates
\* m757Bay that prefers D1 to D2
m757Bay_D1First(h, d) == takeFirstEmptyBay(<<"D1", "D2", "H1", "H2", "D3">>, h, d)

m757Bay_withoutD3(h, d) == takeFirstEmptyBay(<<"D2", "D1", "H1", "H2">>, h, d)

\* the bay an M757 takes: takeFirstEmptyBay([D[1], D[0], H[0], H[1], D[2]])
m757Bay(h, d) == takeFirstEmptyBay(<<"D2", "D1", "H1", "H2", "D3">>, h, d)

\* body of the while loops over heavies and m757s: p goes to slot, or to the
\* conflicts when slot is "none"
placeSingle(p, slot, kind, h, d, conf) ==
    IF slot = "none" THEN <<h, d, Append(conf, p)>>
    ELSE LET hd == SetBay(h, d, slot, [kind |-> kind, slots |-> <<p>>])
         IN <<hd[1], hd[2], conf>>

\* let dSplitIdx = null; if (smalls.length >= 2) { ... }
chooseDSplit(d, nSmalls) ==
    IF nSmalls >= 2
    THEN IF d[1].kind = "EMPTY" /\ d[2].kind # "SPLIT" /\ d[2].kind # "M757" THEN 1
         ELSE IF d[2].kind = "EMPTY" /\ d[1].kind # "SPLIT" /\ d[1].kind # "M757" THEN 2
         ELSE IF d[1].kind = "EMPTY" /\ d[2].kind = "EMPTY" THEN 1
         ELSE 0
    ELSE 0

\* splitIfHelpful(bay): the bay afterwards
splitIfHelpful(bay, nSmalls) ==
    IF nSmalls >= 2 /\ bay.kind = "EMPTY" THEN [kind |-> "SPLIT", slots |-> <<>>] ELSE bay

\* splitD that splits every EMPTY bay of D1, D2 once a split is decided
splitD_both(d, idx) ==
    IF idx # 0
    THEN [k \in 1..3 |-> IF k <= 2 /\ d[k].kind = "EMPTY"
                         THEN [kind |-> "SPLIT", slots |-> <<>>] ELSE d[k]]
    ELSE d

\* splitD that indexes D one too far
splitD_offByOne(d, idx) ==
    IF idx # 0 /\ d[idx + 1].kind = "EMPTY"
    THEN [d EXCEPT ![idx + 1] = [kind |-> "SPLIT", slots |-> <<>>]]
    ELSE d

\* if (dSplitIdx !== null && D[dSplitIdx].kind === 'EMPTY') { D[dSplitIdx] = SPLIT }
splitD(d, idx) ==
    IF idx # 0 /\ d[idx].kind = "EMPTY"
    THEN [d EXCEPT ![idx] = [kind |-> "SPLIT", slots |-> <<>>]]
    ELSE d

\* occupants a SPLIT bay takes (bay.slots.length < 2)
SplitCapacity == 2

\* fillCount with the loop test bay.slots.length <= 2
fillCount_oneTooMany(bay, q) ==
    IF bay.kind = "SPLIT" /\ Len(bay.slots) <= SplitCapacity
    THEN Min(Len(q), SplitCapacity + 1 - Len(bay.slots))
    ELSE 0

\* fillCount with the loop test bay.slots.length < 1
fillCount_onlyOne(bay, q) ==
    IF bay.kind = "SPLIT" /\ Len(bay.slots) < 1
    THEN Min(Len(q), 1 - Len(bay.slots))
    ELSE 0

\* while (smalls.length && bay.slots.length < 2) bay.slots.push(smalls.shift()),
\* for a bay of kind SPLIT: how many aircraft move
fillCount(bay, q) ==
    IF bay.kind = "SPLIT" /\ Len(bay.slots) < SplitCapacity
    THEN Min(Len(q), SplitCapacity - Len(bay.slots))
    ELSE 0

\* the bay after the fill loop took the first n aircraft of the queue q
fillBay(bay, q, n) == [bay EXCEPT !.slots = bay.slots \o SubSeq(q, 1, n)]

\* the bays the fill loop and pushSmallIntoAnySingle visit: [H[0],H[1],D[0],D[1]]
SplitOrder == <<"H1", "H2", "D1", "D2">>

\* pushSmallIntoAnySingle, first loop: the first SPLIT bay with room, or "none"
RECURSIVE firstSplitWithRoom(_, _, _)
firstSplitWithRoom(cands, h, d) ==
    IF cands = <<>> THEN "none"
    ELSE LET bay == slotToBay(Head(cands), h, d) IN
         IF bay.kind = "SPLIT" /\ Len(bay.slots) < SplitCapacity THEN Head(cands)
         ELSE firstSplitWithRoom(Tail(cands), h, d)

\* pushSmallIntoAnySingle, second part: takeFirstEmptyBay([H[0],H[1],D[2],D[0],D[1]])
overflowBay(h, d) == takeFirstEmptyBay(<<"H1", "H2", "D3", "D1", "D2">>, h, d)

\* pushSmallIntoAnySingle(p) and the caller's conflicts.push: the new <<H, D, conflicts>>
pushSmallIntoAnySingle(p, h, d, conf) ==
    LET s == firstSplitWithRoom(SplitOrder, h, d) IN
    IF s # "none"
    THEN LET bay == slotToBay(s, h, d)
             hd == SetBay(h, d, s, [bay EXCEPT !.slots = Append(bay.slots, p)])
         IN <<hd[1], hd[2], conf>>
    ELSE placeSingle(p, overflowBay(h, d), "SMALL1", h, d, conf)

\* one iteration of: for (const ovr of bayOverrides) { ... }
OverrideStep ==
    /\ pc = "overrides"
    /\ ovrIdx <= Len(overrides)
    /\ LET ovr == overrides[ovrIdx]
           pb == periodBoundsForIndex(periodIndex)
           idx == findIndex(remaining, ovr.number)
       IN IF ~isOverrideActive(ovr, pb.start, pb.end) \/ idx = 0
          THEN UNCHANGED <<remaining, H, D, conflicts>>
          ELSE LET r == pinAircraft(remaining[idx], ovr.slot, H, D, conflicts)
               IN /\ remaining' = RemoveAt(remaining, idx)
                  /\ H' = r[1]
                  /\ D' = r[2]
                  /\ conflicts' = r[3]
    /\ ovrIdx' = ovrIdx + 1
    /\ UNCHANGED <<overrides, aircraftList, heavies, m757s, smalls, dSplitIdx, pc>>
    /\ UNCHANGED loadVars
    /\ UNCHANGED <<pageVars, planVars, impactVars, storeVars>>

\* const heavies = remaining.filter(...), m757s = ..., smalls = ...
FilterClasses ==
    /\ pc = "overrides"
    /\ ovrIdx > Len(overrides)
    /\ heavies' = Filter(remaining, "HEAVY")
    /\ m757s' = Filter(remaining, "M757")
    /\ smalls' = Filter(remaining, "SMALL")
    /\ pc' = "place"
    /\ UNCHANGED <<overrides, aircraftList, remaining, ovrIdx, H, D, conflicts, dSplitIdx>>
    /\ UNCHANGED loadVars
    /\ UNCHANGED <<pageVars, planVars, impactVars, storeVars>>

\* one iteration of: while (heavies.length) { ... }
PlaceHeavy ==
    /\ pc = "place"
    /\ heavies # <<>>
    /\ LET r == placeSingle(Head(heavies), heavyBay(H, D), "HEAVY", H, D, conflicts)
       IN /\ H' = r[1]
          /\ D' = r[2]
          /\ conflicts' = r[3]
    /\ heavies' = Tail(heavies)
    /\ UNCHANGED <<overrides, aircraftList, remaining, ovrIdx, m757s, smalls, dSplitIdx, pc>>
    /\ UNCHANGED loadVars
    /\ UNCHANGED <<pageVars, planVars, impactVars, storeVars>>

\* one iteration of: while (m757s.length) { ... }
PlaceM757 ==
    /\ pc = "place"
    /\ heavies = <<>>
    /\ m757s # <<>>
    /\ LET r == placeSingle(Head(m757s), m757Bay(H, D), "M757", H, D, conflicts)
       IN /\ H' = r[1]
          /\ D' = r[2]
          /\ conflicts' = r[3]
    /\ m757s' = Tail(m757s)
    /\ UNCHANGED <<overrides, aircraftList, remaining, ovrIdx, heavies, smalls, dSplitIdx, pc>>
    /\ UNCHANGED loadVars
    /\ UNCHANGED <<pageVars, planVars, impactVars, storeVars>>

\* the split decision: dSplitIdx, splitIfHelpful(H[0]), splitIfHelpful(H[1]), D[dSplitIdx]
SplitDecision ==
    /\ pc = "place"
    /\ heavies = <<>>
    /\ m757s = <<>>
    /\ dSplitIdx' = chooseDSplit(D, Len(smalls))
    /\ H' = <<splitIfHelpful(H[1], Len(smalls)), splitIfHelpful(H[2], Len(smalls))>>
    /\ D' = splitD(D, dSplitIdx')
    /\ pc' = "fill"
    /\ UNCHANGED <<overrides, aircraftList, remaining, ovrIdx, conflicts, heavies, m757s, smalls>>
    /\ UNCHANGED loadVars
    /\ UNCHANGED <<pageVars, planVars, impactVars, storeVars>>

\* for (const bay of [H[0],H[1],D[0],D[1]]) { if SPLIT, fill }: the state
\* <<H, D, smalls>> after the bays cands were visited in order
RECURSIVE fillSplitBays(_, _, _, _)
fillSplitBays(cands, h, d, q) ==
    IF cands = <<>> THEN <<h, d, q>>
    ELSE LET bay == slotToBay(Head(cands), h, d)
             n == fillCount(bay, q)
             hd == SetBay(h, d, Head(cands), fillBay(bay, q, n))
         IN fillSplitBays(Tail(cands), hd[1], hd[2], SubSeq(q, n + 1, Len(q)))

\* the loop that fills the SPLIT bays
FillSplit ==
    /\ pc = "fill"
    /\ LET r == fillSplitBays(SplitOrder, H, D, smalls)
       IN /\ H' = r[1]
          /\ D' = r[2]
          /\ smalls' = r[3]
    /\ pc' = "overflow"
    /\ UNCHANGED <<overrides, aircraftList, remaining, ovrIdx, conflicts, heavies, m757s, dSplitIdx>>
    /\ UNCHANGED loadVars
    /\ UNCHANGED <<pageVars, planVars, impactVars, storeVars>>

\* one iteration of: while (smalls.length) { if (!pushSmallIntoAnySingle(p)) conflicts.push(p) }
Overflow ==
    /\ pc = "overflow"
    /\ smalls # <<>>
    /\ LET r == pushSmallIntoAnySingle(Head(smalls), H, D, conflicts)
       IN /\ H' = r[1]
          /\ D' = r[2]
          /\ conflicts' = r[3]
    /\ smalls' = Tail(smalls)
    /\ UNCHANGED <<overrides, aircraftList, remaining, ovrIdx, heavies, m757s, dSplitIdx, pc>>
    /\ UNCHANGED loadVars
    /\ UNCHANGED <<pageVars, planVars, impactVars, storeVars>>

\* the dash a cell shows for a missing number and for a bay without label
Dash == "-"

\* label(p): the text naming the aircraft, by its number, a dash when the
\* number is empty
label(p) == IF p.number = "" THEN Dash ELSE p.number

\* bayCell(bay): cls, the labels that text joins with ' | ' (the dash when the
\* joined text is empty), and one tip per occupant
bayCell(bay) ==
    IF bay.kind = "EMPTY" THEN [cls |-> "empty", text |-> <<Dash>>, tips |-> <<>>]
    ELSE IF bay.kind = "SPLIT"
    THEN LET texts == [i \in DOMAIN bay.slots |-> label(bay.slots[i])]
         IN [cls |-> "occupied split",
             text |-> IF texts = <<>> THEN <<Dash>> ELSE texts,
             tips |-> [i \in DOMAIN bay.slots |-> bay.slots[i].id]]
    ELSE [cls |-> "occupied",
          text |-> <<label(bay.slots[1])>>,
          tips |-> <<bay.slots[1].id>>]

\* the object assignForPeriod returns for the bays h, d and the conflicts conf
returned(h, d, conf) ==
    [H |-> <<bayCell(h[1]), bayCell(h[2])>>,
     D |-> <<bayCell(d[1]), bayCell(d[2]), bayCell(d[3])>>,
     conflicts |-> conf]

\* return { H: [...], D: [...], conflicts }
Return ==
    /\ pc = "overflow"
    /\ smalls = <<>>
    /\ pc' = "done"
    /\ UNCHANGED <<overrides, aircraftList, remaining, ovrIdx, H, D, conflicts,
                   heavies, m757s, smalls, dSplitIdx>>
    /\ UNCHANGED loadVars
    /\ UNCHANGED <<pageVars, planVars, impactVars, storeVars>>

----------------------------------------------------------------------------
(* Inputs of the hangar planner *)

\* project numbers that overrides name, and the label of a project without number
PinNumbers == {"P7611", "P7712"}
NoNumber == "-"

\* aircraftList: element i is the object built by activeProjectsForIdx; id is its
\* identity (its position in the argument)
MkList(k, nm, c) == [i \in 1..k |-> [id |-> i, number |-> nm[i], cls |-> c[i]]]

\* aircraftList is some list of at most n aircraft with the given numbers
ListUpTo(numbers, n) ==
    \E k \in 0..n : \E nm \in [1..k -> numbers], c \in [1..k -> Classes] :
        aircraftList = MkList(k, nm, c)

\* overrides without dates, as the page writes them
OverrideChoices ==
    { [number |-> nm, slot |-> s, from |-> NoDate, to |-> NoDate] :
        nm \in PinNumbers, s \in SlotNames }

\* single overrides with a date range: starting after the planned week, ended
\* before it, or covering it
DatedOverrideLists ==
    LET week == mondayOf(Today) IN
    { << [number |-> nm, slot |-> s, from |-> w[1], to |-> w[2]] >> :
        nm \in PinNumbers, s \in {"H1", "D3"},
        w \in {<<week + 7, NoDate>>, <<NoDate, week - 1>>, <<week, week + 6>>} }

\* aircraftList and overrides drawn together: at least as many aircraft as
\* overrides, MaxPinSize of them in all
PinnedInputs ==
    \E n \in 1..MaxPinSize, m \in 1..MaxPinSize :
        /\ m <= n
        /\ n + m <= MaxPinSize
        /\ \E nm \in [1..n -> PinNumbers], c \in [1..n -> Classes] :
              aircraftList = MkList(n, nm, c)
        /\ overrides \in [1..m -> OverrideChoices]

\* the page as loaded, without departments: the parameters at their defaults
InitPageIdle ==
    /\ departmentCapacities = <<>>
    /\ PRODUCTIVITY_FACTOR = 85
    /\ HOURS_PER_FTE = 40
    /\ currentKey = ""
    /\ currentPeriod = "weekly"
    /\ showPotential = FALSE
    /\ utilData = <<>>
    /\ lastEvent = [target |-> "load", raw |-> 0, nan |-> FALSE]

InitLoadIdle ==
    /\ projects = <<>>
    /\ potentialProjects = <<>>
    /\ projectsActual = <<>>
    /\ weekLabels = getWeekList(<<>>)
    /\ dataWConfirmed = computeWeeklyLoadsDetailed(<<>>, weekLabels)
    /\ dataWPotential = computeWeeklyLoadsDetailed(<<>>, weekLabels)
    /\ dataWActual = computeWeeklyLoadsActual(<<>>, weekLabels)
    /\ monthLabels = getMonthList(<<>>)
    /\ dataMConfirmed = computeMonthlyLoadsDetailed(<<>>, monthLabels)
    /\ dataMPotential = computeMonthlyLoadsDetailed(<<>>, monthLabels)
    /\ dataMActual = computeMonthlyLoadsActual(<<>>, monthLabels)
    /\ loadPc = "ready"

\* the first statements of assignForPeriod
InitLocals ==
    /\ remaining = aircraftList
    /\ ovrIdx = 1
    /\ H = <<EmptyBay, EmptyBay>>
    /\ D = <<EmptyBay, EmptyBay, EmptyBay>>
    /\ conflicts = <<>>
    /\ heavies = <<>>
    /\ m757s = <<>>
    /\ smalls = <<>>
    /\ dSplitIdx = 0
    /\ pc = "overrides"

\* the planner before any period is drawn: first period, planIncPot unchecked
InitPlanIdle ==
    /\ periodIndex = 1
    /\ planIncPot = FALSE

\* the what-if panel before the first run: nothing rendered
InitImpactIdle == impactResult = [kind |-> "none"]

\* the store after init_db(): an empty table, no call made
InitStoreIdle ==
    /\ table = {}
    /\ nextId = 1
    /\ storePc = "idle"
    /\ storeLock = "none"
    /\ pending = {}
    /\ todo = <<>>
    /\ lastCall = [op |-> "init_db"]

InitInputs ==
    \/ /\ overrides = <<>>
       /\ ListUpTo({NoNumber}, MaxAuto)
    \/ PinnedInputs
    \/ /\ overrides = bayOverrides
       /\ ListUpTo(PinNumbers, MaxPinSize)
    \/ /\ overrides \in DatedOverrideLists
       /\ ListUpTo(PinNumbers, MaxPinSize - 2)

InitHangar == InitInputs /\ InitLocals /\ InitPlanIdle /\ InitImpactIdle /\ InitStoreIdle

Init == InitPageIdle /\ InitLoadIdle /\ InitHangar

Next ==
    \/ OverrideStep
    \/ FilterClasses
    \/ PlaceHeavy
    \/ PlaceM757
    \/ SplitDecision
    \/ FillSplit
    \/ Overflow
    \/ Return

Spec == Init /\ [][Next]_vars

----------------------------------------------------------------------------
(* assignForPeriod as a function of its arguments *)

\* for (const ovr of bayOverrides) { ... }: <<remaining, H, D, conflicts>> after
\* the overrides ovrs were applied in order
RECURSIVE applyOverrides(_, _, _, _, _, _)
applyOverrides(ovrs, rem, h, d, conf, pb) ==
    IF ovrs = <<>> THEN <<rem, h, d, conf>>
    ELSE LET ovr == Head(ovrs)
             idx == findIndex(rem, ovr.number)
         IN IF ~isOverrideActive(ovr, pb.start, pb.end) \/ idx = 0
            THEN applyOverrides(Tail(ovrs), rem, h, d, conf, pb)
            ELSE LET r == pinAircraft(rem[idx], ovr.slot, h, d, conf)
                 IN applyOverrides(Tail(ovrs), RemoveAt(rem, idx), r[1], r[2], r[3], pb)

\* while (heavies.length) { ... }: <<H, D, conflicts>> after the loop
RECURSIVE placeHeavies(_, _, _, _)
placeHeavies(q, h, d, conf) ==
    IF q = <<>> THEN <<h, d, conf>>
    ELSE LET r == placeSingle(Head(q), heavyBay(h, d), "HEAVY", h, d, conf)
         IN placeHeavies(Tail(q), r[1], r[2], r[3])

\* while (m757s.length) { ... }: <<H, D, conflicts>> after the loop
RECURSIVE placeM757s(_, _, _, _)
placeM757s(q, h, d, conf) ==
    IF q = <<>> THEN <<h, d, conf>>
    ELSE LET r == placeSingle(Head(q), m757Bay(h, d), "M757", h, d, conf)
         IN placeM757s(Tail(q), r[1], r[2], r[3])

\* while (smalls.length) { ... pushSmallIntoAnySingle ... }: <<H, D, conflicts>>
\* after the loop
RECURSIVE overflowSmalls(_, _, _, _)
overflowSmalls(q, h, d, conf) ==
    IF q = <<>> THEN <<h, d, conf>>
    ELSE LET r == pushSmallIntoAnySingle(Head(q), h, d, conf)
         IN overflowSmalls(Tail(q), r[1], r[2], r[3])

\* the split decision, the fill loop and the overflow loop for the smalls sm
splitFillOverflow(sm, h, d, conf) ==
    LET idx == chooseDSplit(d, Len(sm))
        h2 == <<splitIfHelpful(h[1], Len(sm)), splitIfHelpful(h[2], Len(sm))>>
        d2 == splitD(d, idx)
        f == fillSplitBays(SplitOrder, h2, d2, sm)
    IN overflowSmalls(f[3], f[1], f[2], conf)

\* HEAVY and M757 placed one by one as they come in the list q, not class by class
RECURSIVE placeInListOrder(_, _, _, _)
placeInListOrder(q, h, d, conf) ==
    IF q = <<>> THEN <<h, d, conf>>
    ELSE LET p == Head(q)
             r == IF p.cls = "HEAVY"
                  THEN placeSingle(p, heavyBay(h, d), "HEAVY", h, d, conf)
                  ELSE IF p.cls = "M757"
                  THEN placeSingle(p, m757Bay(h, d), "M757", h, d, conf)
                  ELSE <<h, d, conf>>
         IN placeInListOrder(Tail(q), r[1], r[2], r[3])

\* assignForPeriod that walks remaining once instead of filtering it by class
assignForPeriod_listOrder(list, ovrs, pidx) ==
    LET a == applyOverrides(ovrs, list, <<EmptyBay, EmptyBay>>,
                            <<EmptyBay, EmptyBay, EmptyBay>>, <<>>,
                            periodBoundsForIndex(pidx))
        m == placeInListOrder(a[1], a[2], a[3], a[4])
    IN splitFillOverflow(Filter(a[1], "SMALL"), m[1], m[2], m[3])

\* assignForPeriod(aircraftList, periodIndex) with the overrides ovrs: the final
\* <<H, D, conflicts>>
assignForPeriod(list, ovrs, pidx) ==
    LET a == applyOverrides(ovrs, list, <<EmptyBay, EmptyBay>>,
                            <<EmptyBay, EmptyBay, EmptyBay>>, <<>>,
                            periodBoundsForIndex(pidx))
        hv == placeHeavies(Filter(a[1], "HEAVY"), a[2], a[3], a[4])
        m == placeM757s(Filter(a[1], "M757"), hv[1], hv[2], hv[3])
    IN splitFillOverflow(Filter(a[1], "SMALL"), m[1], m[2], m[3])

\* longest aircraft list in the study of list orders
MaxOrder == 5

\* pairwise distinct project numbers, the first two those that overrides name
OrderNumbers == <<"P7611", "P7712", "P7801", "P7802", "P7803", "P7804", "P7805">>

\* an override without dates
Pin(nm, sl) == [number |-> nm, slot |-> sl, from |-> NoDate, to |-> NoDate]

\* override lists of the study: none, one pin, two pins for one bay, two pins
\* for two bays
OrderOverrides ==
    { <<>>,
      <<Pin("P7611", "H1")>>,
      <<Pin("P7611", "D1"), Pin("P7712", "D1")>>,
      <<Pin("P7712", "D3"), Pin("P7611", "H1")>>,
      <<Pin("P7611", "D3"), Pin("P7712", "D2")>> }

\* one of the override lists, and a list of aircraft with pairwise distinct
\* numbers
InitOrderInputs ==
    /\ overrides \in OrderOverrides
    /\ \E k \in 0..MaxOrder : \E c \in [1..k -> Classes] :
          aircraftList = MkList(k, [i \in 1..k |-> OrderNumbers[i]], c)

InitOrder ==
    /\ InitPageIdle /\ InitLoadIdle
    /\ InitOrderInputs /\ InitLocals /\ InitPlanIdle /\ InitImpactIdle /\ InitStoreIdle

SpecOrder == InitOrder /\ [][Next]_vars

----------------------------------------------------------------------------
(* The page script building the weekly series *)

\* the hours a project carries for the department: none, or some
HoursChoices == {0, 100}

\* an array with no project or with one, its dates anywhere in 0..MaxDay
OneOrNone(arr) ==
    \/ arr = <<>>
    \/ \E a \in 0..MaxDay, b \in 0..MaxDay, h \in HoursChoices :
          arr = << [number |-> NoNumber, induction |-> a, delivery |-> b, hours |-> h] >>

\* projectsActual with one or two projects that carry hours
ActualProjects ==
    \E n \in 1..2 : \E a \in [1..n -> 0..MaxDay], b \in [1..n -> 0..MaxDay] :
        projectsActual = [i \in 1..n |-> [number |-> NoNumber, induction |-> a[i],
                                          delivery |-> b[i], hours |-> 100]]

InitLoad ==
    /\ \/ OneOrNone(projects) /\ OneOrNone(potentialProjects) /\ projectsActual = <<>>
       \/ projects = <<>> /\ potentialProjects = <<>> /\ ActualProjects
    /\ weekLabels = <<>>
    /\ monthLabels = <<>>
    /\ dataWConfirmed = <<>>
    /\ dataWPotential = <<>>
    /\ dataWActual = <<>>
    /\ dataMConfirmed = <<>>
    /\ dataMPotential = <<>>
    /\ dataMActual = <<>>
    /\ loadPc = "labels"
    /\ InitPageIdle
    /\ overrides = <<>>
    /\ aircraftList = <<>>
    /\ InitLocals
    /\ InitPlanIdle
    /\ InitImpactIdle
    /\ InitStoreIdle

NextLoad ==
    \/ BuildWeekLabels
    \/ BuildMonthLabels
    \/ LoadDepartment

SpecLoad == InitLoad /\ [][NextLoad]_vars

----------------------------------------------------------------------------
(* The loaded page handling its parameter inputs *)

\* most staff a department has
MaxHeadcount == 3

\* projects of the loaded page: a confirmed one over two weeks and one month or
\* over the turn of the month, a short potential one
PageConfirmed ==
    { <<>>,
      << [number |-> NoNumber, induction |-> 0, delivery |-> 7, hours |-> 100] >>,
      << [number |-> NoNumber, induction |-> 7, delivery |-> 14, hours |-> 90] >> }

PagePotential ==
    { <<>>, << [number |-> NoNumber, induction |-> 7, delivery |-> 11, hours |-> 60] >> }

InitPage ==
    /\ projects \in PageConfirmed
    /\ potentialProjects \in PagePotential
    /\ projectsActual = <<>>
    /\ weekLabels = getWeekList(AllProjects)
    /\ monthLabels = getMonthList(AllProjects)
    /\ dataWConfirmed = computeWeeklyLoadsDetailed(projects, weekLabels)
    /\ dataWPotential = computeWeeklyLoadsDetailed(potentialProjects, weekLabels)
    /\ dataWActual = computeWeeklyLoadsActual(projectsActual, weekLabels)
    /\ dataMConfirmed = computeMonthlyLoadsDetailed(projects, monthLabels)
    /\ dataMPotential = computeMonthlyLoadsDetailed(potentialProjects, monthLabels)
    /\ dataMActual = computeMonthlyLoadsActual(projectsActual, monthLabels)
    /\ loadPc = "ready"
    /\ \E h1 \in 0..MaxHeadcount, h2 \in 0..MaxHeadcount :
          departmentCapacities = << [key |-> "structures", headcount |-> h1],
                                    [key |-> "avionics", headcount |-> h2] >>
    /\ PRODUCTIVITY_FACTOR = 85
    /\ HOURS_PER_FTE = 40
    /\ currentKey = departmentCapacities[1].key
    /\ currentPeriod = "weekly"
    /\ showPotential = FALSE
    /\ utilData = refreshedUtil(departmentCapacities, HOURS_PER_FTE, PRODUCTIVITY_FACTOR,
                                currentKey, currentPeriod, showPotential)
    /\ lastEvent = [target |-> "load", raw |-> 0, nan |-> FALSE]
    /\ overrides = <<>>
    /\ aircraftList = <<>>
    /\ InitLocals
    /\ InitPlanIdle
    /\ InitImpactIdle
    /\ InitStoreIdle

NextPage ==
    \/ ProdSliderInput
    \/ HoursInputChange
    \/ SelChange
    \/ ChkPotChange
    \/ PeriodSelChange

SpecPage == InitPage /\ [][NextPage]_vars

----------------------------------------------------------------------------
(* The what-if panel *)

\* x - y
RatSub(x, y) == Norm(<<x[1] * y[2] - y[1] * x[2], x[2] * y[2]>>)

\* Math.max(0, x)
RatMax0(x) == IF x[1] > 0 THEN x ELSE Zero

\* Math.ceil(x) for x >= 0
Ceil(x) == (x[1] + x[2] - 1) \div x[2]

\* addWD(d, n): the n-th workday after d
RECURSIVE addWD(_, _)
addWD(d, n) ==
    IF n <= 0 THEN d
    ELSE IF isWorkday(d + 1) THEN addWD(d + 1, n - 1) ELSE addWD(d + 1, n)

\* 1 + Math.max(0, parseFloat(otPct) || 0) / 100
upliftOf(otPct) == <<100 + Max(0, otPct), 100>>

\* capPerDay(key, otPct)
capPerDay(key, otPct) ==
    LET perWeek == <<headcountOf(departmentCapacities, key) * HOURS_PER_FTE
                       * PRODUCTIVITY_FACTOR, 100>>
    IN RatDiv(RatMul(perWeek, upliftOf(otPct)), <<5, 1>>)

\* baselineSeries(period, key)
baselineSeries(period) == IF period = "weekly" THEN dataWConfirmed ELSE dataMConfirmed

\* Pstart and Pend of periodRange
periodStartOf(period, L) == IF period = "weekly" THEN mondayOf(L) ELSE firstOfMonth(L)
periodEndOf(period, L) ==
    IF period = "weekly" THEN mondayOf(L) + 6 ELSE lastOfMonth(L)

\* periodRange(period, labels, start, end): <<s, e>>, or <<0, 0>> for null
periodRange(period, labels, start, end) ==
    LET S == {i \in DOMAIN labels : periodEndOf(period, labels[i]) >= start}
        E == {i \in DOMAIN labels : periodStartOf(period, labels[i]) <= end}
        s == IF S = {} THEN 0 ELSE CHOOSE i \in S : \A j \in S : i <= j
        e == IF E = {} THEN 0 ELSE CHOOSE i \in E : \A j \in E : i >= j
    IN IF s = 0 \/ e = 0 \/ e < s THEN <<0, 0>> ELSE <<s, e>>

\* the loop of sumHeadroom over i = from..e
RECURSIVE headroomFrom(_, _, _, _, _)
headroomFrom(from, e, cap, base, uplift) ==
    IF from > e THEN Zero
    ELSE RatAdd(RatMax0(RatSub(RatMul(cap[from], uplift), base[from])),
                headroomFrom(from + 1, e, cap, base, uplift))

\* sumHeadroom(period, key, start, end, otPct)
sumHeadroom(period, key, start, end, otPct) ==
    LET labels == IF period = "weekly" THEN weekLabels ELSE monthLabels
        cap == capacityArray(headcountOf(departmentCapacities, key), HOURS_PER_FTE,
                             PRODUCTIVITY_FACTOR, labels, period)
        rng == periodRange(period, labels, start, end)
    IN IF rng = <<0, 0>> THEN Zero
       ELSE headroomFrom(rng[1], rng[2], cap, baselineSeries(period), upliftOf(otPct))

\* the row that the forEach of the impactRun handler pushes for department d
impactRow(d, hrs, mult, earliestStart, targetEnd, otPct) ==
    LET capDay == capPerDay(d.key, otPct)
        h == <<hrs * mult, 1>>
        head == sumHeadroom(currentPeriod, d.key, earliestStart, targetEnd, otPct)
        short == RatMax0(RatSub(h, head))
        slip == IF short[1] > 0 /\ capDay[1] > 0 THEN Ceil(RatDiv(short, capDay)) ELSE 0
    IN [key |-> d.key, h |-> h, head |-> head, short |-> short, slip |-> slip]

\* overallSlip after the forEach
maxSlip(rows) ==
    IF rows = <<>> THEN 0
    ELSE CHOOSE m \in {rows[i].slip : i \in DOMAIN rows} \cup {0} :
            \A i \in DOMAIN rows : rows[i].slip <= m

\* a number field of the panel: its text parses to v, or does not parse
NumberTexts(values) ==
    {[nan |-> TRUE, v |-> 0]} \cup {[nan |-> FALSE, v |-> n] : n \in values}

\* Math.max(0, parseFloat(impactMult.value || '1') || 1)
multOf(raw) == Max(0, IF raw.nan \/ raw.v = 0 THEN 1 ELSE raw.v)

\* Math.max(0, parseInt(impactLead.value || '0', 10) || 0), and the same for impactOT
nonNegativeOf(raw) == Max(0, IF raw.nan THEN 0 ELSE raw.v)

\* what the handler renders for project proj (hrs: its hours per department)
\* and the values of the input fields; asked keeps what the click read in
\* impactMult and in the project's hours
impactOutcome(proj, hrs, multRaw, leadRaw, otRaw, ind, del) ==
    LET mult == multOf(multRaw)
        minLead == nonNegativeOf(leadRaw)
        otPct == nonNegativeOf(otRaw)
        rawStart == IF ind # NoDate THEN ind ELSE proj.induction
        rawEnd == IF del # NoDate THEN del ELSE proj.delivery
        leadReady == addWD(Today, minLead)
        earliestStart == IF rawStart > leadReady THEN rawStart ELSE leadReady
        rows == [i \in DOMAIN departmentCapacities |->
                    impactRow(departmentCapacities[i], hrs[i], mult, earliestStart,
                              rawEnd, otPct)]
    IN IF rawStart = InvalidDate \/ rawEnd = InvalidDate \/ rawEnd < rawStart
       THEN [kind |-> "Invalid induction/delivery dates."]
       ELSE [kind |-> "result", asked |-> [mult |-> multRaw, hrs |-> hrs],
             otPct |-> otPct, earliestStart |-> earliestStart,
             targetStart |-> rawStart, targetEnd |-> rawEnd,
             newEnd |-> addWD(rawEnd, maxSlip(rows)), slipDays |-> maxSlip(rows),
             rows |-> rows]

\* impactSourceProjects() for the sources 'confirmed' and 'potential'
impactSourceProjects(src) == IF src = "potential" THEN potentialProjects ELSE projects

\* dates typed into impactInd and impactDel, NoDate being the empty field:
\* both empty, a later induction with a later delivery, a delivery before the
\* induction
ImpactDates == {<<NoDate, NoDate>>, <<8, 14>>, <<8, 4>>}

\* a click handler that empties the confirmed series it reads
ImpactRun_clearsBaseline ==
    /\ impactResult' = [kind |-> "No project selected."]
    /\ dataWConfirmed' = [i \in DOMAIN dataWConfirmed |-> Zero]
    /\ dataMConfirmed' = [i \in DOMAIN dataMConfirmed |-> Zero]
    /\ UNCHANGED <<projects, potentialProjects, projectsActual, weekLabels, dataWPotential,
                   dataWActual, monthLabels, dataMPotential, dataMActual, loadPc>>
    /\ UNCHANGED <<hangarVars, pageVars, planVars, storeVars>>

\* impactRun.addEventListener('click', ...)
ImpactRun ==
    /\ \E multRaw \in NumberTexts({0, 2}), leadRaw \in NumberTexts({3}),
          otRaw \in NumberTexts({25}), dates \in ImpactDates :
          \/ \E src \in {"confirmed", "potential"} :
                LET arr == impactSourceProjects(src) IN
                IF arr = <<>>
                THEN impactResult' = [kind |-> "No project selected."]
                ELSE \E idx \in DOMAIN arr :
                        impactResult' =
                            impactOutcome(arr[idx], [i \in DOMAIN departmentCapacities |->
                                                        arr[idx].hours],
                                          multRaw, leadRaw, otRaw, dates[1], dates[2])
          \/ \E h \in HoursChoices :
                impactResult' =
                    impactOutcome([induction |-> Today, delivery |-> addWD(Today, 10)],
                                  [i \in DOMAIN departmentCapacities |-> h],
                                  multRaw, leadRaw, otRaw, dates[1], dates[2])
    /\ UNCHANGED <<loadVars, hangarVars, pageVars, planVars, storeVars>>

NextImpact ==
    \/ ImpactRun
    \/ PeriodSelChange

\* the loaded page with a confirmed project, one department of any size and
\* one of a single person
InitImpact == InitPage /\ projects # <<>> /\ departmentCapacities[2].headcount = 1

SpecImpact == InitImpact /\ [][NextImpact]_vars

----------------------------------------------------------------------------
(* The planner grid: the active aircraft of a period *)

\* a text is the sequence of its characters
\* String.prototype.toUpperCase, over the letters the model texts use
toUpperCase(s) ==
    [i \in DOMAIN s |-> CASE s[i] = "a" -> "A" [] s[i] = "b" -> "B" [] OTHER -> s[i]]

\* String.prototype.startsWith
startsWith(s, pre) == Len(s) >= Len(pre) /\ SubSeq(s, 1, Len(pre)) = pre

\* the null that classifyAircraft returns
NoClass == "null"

\* classifyAircraft(model)
classifyAircraft(model) ==
    LET s == toUpperCase(model) IN
    IF s = <<>> THEN NoClass
    ELSE IF \/ startsWith(s, <<"B", "7", "7", "7">>) \/ startsWith(s, <<"B", "7", "4", "7">>)
            \/ startsWith(s, <<"A", "3", "4", "0">>) \/ startsWith(s, <<"A", "3", "3", "0">>)
    THEN "HEAVY"
    ELSE IF startsWith(s, <<"B", "7", "5", "7">>) THEN "M757"
    ELSE IF startsWith(s, <<"B", "7", "3", "7">>) \/ startsWith(s, <<"A", "3", "1", "9">>)
    THEN "SMALL"
    ELSE NoClass

\* overlaps that tests the start of the range only
overlaps_startOnly(aStart, aEnd, bStart, bEnd) == ~(aStart > bEnd)

\* overlaps(aStart, aEnd, bStart, bEnd)
overlaps(aStart, aEnd, bStart, bEnd) == ~(aEnd < bStart \/ aStart > bEnd)

\* pull(list) of activeProjectsForIdx: what it pushes for the projects of list
\* from position k on. The id of a pushed object is the position of its project
\* in projects followed by potentialProjects (k + offset).
RECURSIVE pull(_, _, _, _, _)
pull(list, k, offset, start, end) ==
    IF k > Len(list) THEN <<>>
    ELSE LET p == list[k]
             rest == pull(list, k + 1, offset, start, end)
         IN IF p.offsite THEN rest
            ELSE IF p.induction = InvalidDate \/ p.delivery = InvalidDate THEN rest
            ELSE IF overlaps(p.induction, p.delivery, start, end) /\ p.aircraftModel # <<>>
            THEN IF classifyAircraft(p.aircraftModel) = NoClass THEN rest
                 ELSE << [id |-> k + offset,
                          number |-> IF p.number = "" THEN NoNumber ELSE p.number,
                          cls |-> classifyAircraft(p.aircraftModel)] >> \o rest
            ELSE rest

\* activeProjectsForIdx(i, includePotential)
activeProjectsForIdx(i, includePotential) ==
    LET pb == periodBoundsForIndex(i) IN
    pull(projects, 1, 0, pb.start, pb.end)
        \o (IF includePotential
            THEN pull(potentialProjects, 1, Len(projects), pb.start, pb.end)
            ELSE <<>>)

\* indices.map(i => { const act = activeProjectsForIdx(i, includePot);
\* return assignForPeriod(act, i); }): one period, up to the first statements
\* of assignForPeriod
DrawPeriod ==
    /\ pc \in {"idle", "done"}
    /\ \E i \in DOMAIN weekLabels, inc \in BOOLEAN :
          /\ periodIndex' = i
          /\ planIncPot' = inc
          /\ aircraftList' = activeProjectsForIdx(i, inc)
    /\ remaining' = aircraftList'
    /\ ovrIdx' = 1
    /\ H' = <<EmptyBay, EmptyBay>>
    /\ D' = <<EmptyBay, EmptyBay, EmptyBay>>
    /\ conflicts' = <<>>
    /\ heavies' = <<>>
    /\ m757s' = <<>>
    /\ smalls' = <<>>
    /\ dSplitIdx' = 0
    /\ pc' = "overrides"
    /\ UNCHANGED overrides
    /\ UNCHANGED <<loadVars, pageVars, impactVars, storeVars>>

\* texts of aircraftModel: a heavy, a 757 in lower case, two small types, a type
\* of no class, a text too short to classify, and the empty text
ModelTexts ==
    { <<"B", "7", "7", "7", "-", "3">>, <<"b", "7", "5", "7">>, <<"B", "7", "3", "7">>,
      <<"a", "3", "1", "9">>, <<"A", "3", "2", "0">>, <<"B", "7", "5">>, <<>> }

\* dates of the project under study: in the first, second and third week, or invalid
StudyDates == {2, 5, 9, 12, 14, InvalidDate}

\* a project record with the fields the planner reads; it carries no hours
MkProject(num, a, b, off, model) ==
    [number |-> num, induction |-> a, delivery |-> b, hours |-> 0,
     offsite |-> off, aircraftModel |-> model]

StudyProjects ==
    { MkProject(num, a, b, off, model) :
        num \in {"", "P7611"}, a \in StudyDates, b \in StudyDates,
        off \in BOOLEAN, model \in ModelTexts }

\* confirmed projects on site for the three weeks: a heavy, a 757 and a small
Fleet ==
    << MkProject("P7712", 0, MaxDay, FALSE, <<"A", "3", "3", "0">>),
       MkProject("", 0, MaxDay, FALSE, <<"B", "7", "5", "7">>),
       MkProject("", 0, MaxDay, FALSE, <<"B", "7", "3", "7">>) >>

\* the page as loaded: the fleet or no fleet, and one more project that is
\* confirmed, potential or actual
InitActive ==
    /\ \E x \in StudyProjects, base \in {<<>>, Fleet} :
          \/ projects = base \o <<x>> /\ potentialProjects = <<>> /\ projectsActual = <<>>
          \/ projects = <<x>> \o base /\ potentialProjects = <<>> /\ projectsActual = <<>>
          \/ projects = base /\ potentialProjects = <<x>> /\ projectsActual = <<>>
          \/ projects = base /\ potentialProjects = <<>> /\ projectsActual = <<x>>
    /\ weekLabels = getWeekList(AllProjects)
    /\ monthLabels = getMonthList(AllProjects)
    /\ dataWConfirmed = computeWeeklyLoadsDetailed(projects, weekLabels)
    /\ dataWPotential = computeWeeklyLoadsDetailed(potentialProjects, weekLabels)
    /\ dataWActual = computeWeeklyLoadsActual(projectsActual, weekLabels)
    /\ dataMConfirmed = computeMonthlyLoadsDetailed(projects, monthLabels)
    /\ dataMPotential = computeMonthlyLoadsDetailed(potentialProjects, monthLabels)
    /\ dataMActual = computeMonthlyLoadsActual(projectsActual, monthLabels)
    /\ loadPc = "ready"
    /\ InitPageIdle
    /\ InitPlanIdle
    /\ InitImpactIdle
    /\ InitStoreIdle
    /\ overrides = bayOverrides
    /\ aircraftList = <<>>
    /\ remaining = <<>>
    /\ ovrIdx = 1
    /\ H = <<EmptyBay, EmptyBay>>
    /\ D = <<EmptyBay, EmptyBay, EmptyBay>>
    /\ conflicts = <<>>
    /\ heavies = <<>>
    /\ m757s = <<>>
    /\ smalls = <<>>
    /\ dSplitIdx = 0
    /\ pc = "idle"

NextActive ==
    \/ DrawPeriod
    \/ OverrideStep
    \/ FilterClasses
    \/ PlaceHeavy
    \/ PlaceM757
    \/ SplitDecision
    \/ FillSplit
    \/ Overflow
    \/ Return

SpecActive == InitActive /\ [][NextActive]_vars

----------------------------------------------------------------------------
(* The data store *)

\* most rows the table ever gets
MaxId == 3

\* Python's None: a key the dict does not have
None == "None"

\* CHECK(dataset IN ('confirmed','potential','actual'))
Datasets == {"confirmed", "potential", "actual"}

\* p.get(k) or d
getOr(v, d) == IF v = None \/ v = "" THEN d ELSE v

\* CREATE UNIQUE INDEX idx_projects_unique ON projects(number, dataset): a row
\* other than the one with id exceptId has the key
keyTaken(tbl, num, ds, exceptId) ==
    \E r \in tbl : r.id # exceptId /\ r.number = num /\ r.dataset = ds

\* SELECT id FROM projects WHERE number=? AND dataset=? with the parameters
\* p.get("number"), p.get("dataset"); a comparison with NULL matches no row
selectByKey(tbl, p) ==
    {r \in tbl : p.number # None /\ p.dataset # None
                 /\ r.number = p.number /\ r.dataset = p.dataset}

\* statements of upsert_project on the rows tbl, nid being the next id:
\* the outcome, the rows and the next id after them
upsertStatements(tbl, nid, p) ==
    LET number == getOr(p.number, "")
        dataset == getOr(p.dataset, "confirmed")
        customer == getOr(p.customer, "")
        found == selectByKey(tbl, p)
        unchanged == [table |-> tbl, nextId |-> nid]
        failCheck == [outcome |-> "IntegrityError: CHECK constraint failed"] @@ unchanged
        failUnique == [outcome |-> "IntegrityError: UNIQUE constraint failed"] @@ unchanged
    IN IF p.id # 0
       THEN \* UPDATE projects SET number=?, ..., dataset=?, ... WHERE id=?
            IF ~\E r \in tbl : r.id = p.id THEN [outcome |-> "ok"] @@ unchanged
            ELSE IF dataset \notin Datasets THEN failCheck
            ELSE IF keyTaken(tbl, number, dataset, p.id) THEN failUnique
            ELSE [outcome |-> "ok", nextId |-> nid,
                  table |-> {IF r.id = p.id
                             THEN [id |-> r.id, number |-> number, dataset |-> dataset,
                                   customer |-> customer]
                             ELSE r : r \in tbl}]
       ELSE IF found # {}
       THEN \* UPDATE projects SET customer=?, ... WHERE id=?
            LET row == CHOOSE r \in found : TRUE
            IN [outcome |-> "ok", nextId |-> nid,
                table |-> {IF r.id = row.id THEN [r EXCEPT !.customer = customer] ELSE r :
                             r \in tbl}]
       ELSE \* INSERT INTO projects(number, ..., dataset, ...) VALUES (...)
            IF dataset \notin Datasets THEN failCheck
            ELSE IF keyTaken(tbl, number, dataset, 0) THEN failUnique
            ELSE [outcome |-> "ok", nextId |-> nid + 1,
                  table |-> tbl \cup {[id |-> nid, number |-> number, dataset |-> dataset,
                                       customer |-> customer]}]

\* a connection other than conn holds the write lock: its write gets
\* "database is locked" when the busy timeout is over
busy(conn) == storeLock \notin {"none", conn}

\* project dicts passed to upsert_project; id 0 stands for a dict without id
\* (p.get("id") is falsy for both)
ProjectDicts ==
    [id : {0, 1}, number : {None, "", "P1"},
     dataset : {None, "confirmed", "potential", "bogus"}, customer : {"a", "b"}]

\* rows passed to replace_dataset
ReplaceRows ==
    LET Row == [id : {0}, number : {"P1", "P2"}, customer : {"a", "b"}]
    IN {<<>>} \cup {<<r>> : r \in Row} \cup {<<r, q>> : r \in Row, q \in Row}

\* upsert_project(p), called on its own: with get_conn() as c: ...; commit, or
\* close without commit when a statement raises
UpsertProject ==
    /\ storePc = "idle"
    /\ nextId <= MaxId
    /\ \E p \in ProjectDicts :
          LET r == upsertStatements(table, nextId, p) IN
          /\ table' = r.table
          /\ nextId' = r.nextId
          /\ lastCall' = [op |-> "upsert_project", p |-> p, outcome |-> r.outcome,
                          before |-> table]
    /\ UNCHANGED <<storePc, storeLock, pending, todo>>
    /\ UNCHANGED <<loadVars, hangarVars, pageVars, planVars, impactVars>>

\* replace_dataset(dataset, rows) up to the for loop: the outer connection
\* executes DELETE inside the transaction it opens, and holds the write lock
ReplaceDelete ==
    /\ storePc = "idle"
    /\ \E dataset \in Datasets, rows \in ReplaceRows :
          /\ pending' = {r \in table : r.dataset # dataset}
          /\ todo' = [i \in DOMAIN rows |-> rows[i] @@ [dataset |-> dataset]]
          /\ lastCall' = [op |-> "replace_dataset", dataset |-> dataset, rows |-> rows,
                          outcome |-> "running", before |-> table]
    /\ storeLock' = "outer"
    /\ storePc' = "rows"
    /\ UNCHANGED <<table, nextId>>
    /\ UNCHANGED <<loadVars, hangarVars, pageVars, planVars, impactVars>>

\* one iteration of: for p in rows: upsert_project({**p, "dataset": dataset}).
\* upsert_project writes on a connection of its own; when it raises, the outer
\* with block closes its connection without commit
ReplaceUpsert ==
    /\ storePc = "rows"
    /\ todo # <<>>
    /\ IF busy("inner")
       THEN /\ lastCall' = [lastCall EXCEPT
                               !.outcome = "OperationalError: database is locked"]
            /\ storePc' = "idle"
            /\ storeLock' = "none"
            /\ pending' = {}
            /\ todo' = <<>>
            /\ UNCHANGED <<table, nextId>>
       ELSE LET r == upsertStatements(table, nextId, Head(todo)) IN
            IF r.outcome = "ok"
            THEN /\ table' = r.table
                 /\ nextId' = r.nextId
                 /\ todo' = Tail(todo)
                 /\ UNCHANGED <<storePc, storeLock, pending, lastCall>>
            ELSE /\ lastCall' = [lastCall EXCEPT !.outcome = r.outcome]
                 /\ storePc' = "idle"
                 /\ storeLock' = "none"
                 /\ pending' = {}
                 /\ todo' = <<>>
                 /\ UNCHANGED <<table, nextId>>
    /\ UNCHANGED <<loadVars, hangarVars, pageVars, planVars, impactVars>>

\* the end of the with block of replace_dataset: conn.commit(), conn.close()
ReplaceCommit ==
    /\ storePc = "rows"
    /\ todo = <<>>
    /\ table' = pending
    /\ pending' = {}
    /\ storeLock' = "none"
    /\ storePc' = "idle"
    /\ lastCall' = [lastCall EXCEPT !.outcome = "ok"]
    /\ UNCHANGED <<nextId, todo>>
    /\ UNCHANGED <<loadVars, hangarVars, pageVars, planVars, impactVars>>

\* the store on its own: no page is open
InitStore ==
    /\ InitPageIdle
    /\ InitLoadIdle
    /\ overrides = <<>>
    /\ aircraftList = <<>>
    /\ InitLocals
    /\ InitPlanIdle
    /\ InitImpactIdle
    /\ InitStoreIdle

NextStore ==
    \/ UpsertProject
    \/ ReplaceDelete
    \/ ReplaceUpsert
    \/ ReplaceCommit

SpecStore == InitStore /\ [][NextStore]_vars

----------------------------------------------------------------------------
(* Notions the properties are stated with *)

\* every aircraft parked in a bay, bay by bay
Occupants == H[1].slots \o H[2].slots \o D[1].slots \o D[2].slots \o D[3].slots

\* how often x occurs in the sequence s
Count(x, s) == Cardinality({i \in DOMAIN s : s[i] = x})

\* the k-th override is active in the planned week
OverrideActive(k) ==
    isOverrideActive(overrides[k], periodBoundsForIndex(periodIndex).start,
                     periodBoundsForIndex(periodIndex).end)

NoActiveOverride == \A k \in DOMAIN overrides : ~OverrideActive(k)

\* position in aircraftList of the first aircraft with the number, 0 if none
FirstListed(num) ==
    LET I == {i \in DOMAIN aircraftList : aircraftList[i].number = num}
    IN IF I = {} THEN 0 ELSE CHOOSE i \in I : \A j \in I : i <= j

\* the k-th override is the only one naming its number / its slot
OnlyOneNaming(k) == \A j \in DOMAIN overrides : j # k => overrides[j].number # overrides[k].number
OnlyOneTargeting(k) == \A j \in DOMAIN overrides : j # k => overrides[j].slot # overrides[k].slot

InConflicts(p) == \E i \in DOMAIN conflicts : conflicts[i] = p

----------------------------------------------------------------------------
(* C1 *)

\* C1 (conflict completeness): when assignForPeriod returns, every aircraft of
\* the input list is once among the occupants of the five bays or once in the
\* conflicts, never in both and never missing, and nothing else is there.
C1_ConflictCompleteness ==
    pc = "done" =>
        /\ \A i \in DOMAIN aircraftList :
              Count(aircraftList[i], Occupants) + Count(aircraftList[i], conflicts) = 1
        /\ Len(Occupants) + Len(conflicts) = Len(aircraftList)

\* a run with a pinned aircraft rejected, an aircraft parked and all three classes
C1_Witness ==
    /\ pc = "done"
    /\ \E k \in DOMAIN overrides : OverrideActive(k)
    /\ conflicts # <<>>
    /\ Occupants # <<>>
    /\ {a.cls : a \in Range(aircraftList)} = Classes

----------------------------------------------------------------------------
(* C2 *)

\* C2 as stated (hangar capacity): at most 6 aircraft are parked in the five bays.
C2_AtMostSixParked == Len(Occupants) <= 6

\* C2 amended: at most 8 aircraft are parked in the five bays: two in each of
\* H1 and H2 when split, two in the one split bay of D1/D2, one in the other
\* and one in D3.
C2_AtMostEightParked == Len(Occupants) <= 3 * SplitCapacity + 2

\* nine SMALL aircraft: eight parked, one conflict
C2_Witness ==
    /\ pc = "done"
    /\ Len(Occupants) = 3 * SplitCapacity + 2
    /\ Len(conflicts) = 1

----------------------------------------------------------------------------
(* C3 *)

NoHeavyInD == \A k \in 1..3 : \A i \in DOMAIN D[k].slots : D[k].slots[i].cls # "HEAVY"

\* an active override that is alone in naming its number and pins a HEAVY to
\* D1, D2 or D3 has its aircraft in the conflicts once the override loop is over
PinnedHeavyRejected ==
    pc # "overrides" =>
        \A k \in DOMAIN overrides :
            ( /\ OverrideActive(k)
              /\ OnlyOneNaming(k)
              /\ ~IsHSlot(overrides[k].slot)
              /\ FirstListed(overrides[k].number) # 0
              /\ aircraftList[FirstListed(overrides[k].number)].cls = "HEAVY" )
            => InConflicts(aircraftList[FirstListed(overrides[k].number)])

\* the heavy loop puts its aircraft in the conflicts when H1 and H2 are both taken
HeavyArrivingLate ==
    (pc = "place" /\ heavies # <<>> /\ H[1].kind # "EMPTY" /\ H[2].kind # "EMPTY")
    => (conflicts' = Append(conflicts, Head(heavies)) /\ H' = H /\ D' = D)

\* C3: in every state of assignForPeriod no HEAVY is an occupant of D1, D2 or
\* D3; a HEAVY pinned to a D slot ends in the conflicts, and so does a HEAVY
\* that arrives when H1 and H2 are both non-empty.
C3_HeavyOnlyInH == [](NoHeavyInD /\ PinnedHeavyRejected) /\ [][HeavyArrivingLate]_vars

\* a HEAVY pinned to D3 is a conflict while another HEAVY found H1 and H2 taken
C3_Witness ==
    /\ pc = "done"
    /\ \E k \in DOMAIN overrides :
          /\ OverrideActive(k) /\ OnlyOneNaming(k) /\ overrides[k].slot = "D3"
          /\ FirstListed(overrides[k].number) # 0
          /\ aircraftList[FirstListed(overrides[k].number)].cls = "HEAVY"
    /\ H[1].kind = "HEAVY" /\ H[2].kind # "EMPTY"
    /\ Len(Filter(conflicts, "HEAVY")) >= 2

----------------------------------------------------------------------------
(* C4 *)

\* the aircraft an override names: the first listed with its number
Named(k) == aircraftList[FirstListed(overrides[k].number)]

\* C4 as stated (override precedence): an active override that pins an active
\* aircraft X to D3, no other override targeting D3, has X as the occupant of D3.
C4_PinnedToD3Occupies ==
    pc = "done" =>
        \A k \in DOMAIN overrides :
            ( /\ overrides[k].slot = "D3"
              /\ OnlyOneTargeting(k)
              /\ OverrideActive(k)
              /\ FirstListed(overrides[k].number) # 0 )
            => D[3].slots = <<Named(k)>>

\* C4 amended: the same, provided X is not HEAVY and no other override names X.
C4_PinnedNonHeavyToD3Occupies ==
    pc = "done" =>
        \A k \in DOMAIN overrides :
            ( /\ overrides[k].slot = "D3"
              /\ OnlyOneTargeting(k)
              /\ OverrideActive(k)
              /\ FirstListed(overrides[k].number) # 0
              /\ Named(k).cls # "HEAVY"
              /\ OnlyOneNaming(k) )
            => D[3].slots = <<Named(k)>>

\* X is listed last, behind another aircraft with its number, and holds D3
C4_Witness ==
    /\ pc = "done"
    /\ \E k \in DOMAIN overrides :
          /\ overrides[k].slot = "D3" /\ OnlyOneTargeting(k) /\ OverrideActive(k)
          /\ OnlyOneNaming(k)
          /\ FirstListed(overrides[k].number) # 0
          /\ D[3].slots = <<Named(k)>>
          /\ Len(aircraftList) >= 3
          /\ FirstListed(overrides[k].number) > 1
          /\ \E i \in DOMAIN aircraftList :
                i > FirstListed(overrides[k].number)
                /\ aircraftList[i].number = overrides[k].number

----------------------------------------------------------------------------
(* C5 *)

\* C5 (D1/D2 split exclusivity): in every state at most one of D1, D2 is SPLIT.
C5_OneDSplit == ~(D[1].kind = "SPLIT" /\ D[2].kind = "SPLIT")

\* D1 is split and full while D2, EMPTY at the split decision, took one SMALL
C5_Witness ==
    /\ pc = "done"
    /\ D[1].kind = "SPLIT" /\ Len(D[1].slots) = SplitCapacity
    /\ D[2].kind = "SMALL1"

----------------------------------------------------------------------------
(* C6 *)

\* C6: D3 is never SPLIT, never holds a HEAVY and never holds more than one
\* aircraft, whatever the input and the overrides.
C6_D3Single ==
    /\ D[3].kind # "SPLIT"
    /\ \A i \in DOMAIN D[3].slots : D[3].slots[i].cls # "HEAVY"
    /\ Len(D[3].slots) <= 1

\* an override holds D3 with one aircraft, a HEAVY was rejected, D2 was split
C6_Witness ==
    /\ pc = "done"
    /\ \E k \in DOMAIN overrides : overrides[k].slot = "D3" /\ OverrideActive(k)
    /\ Len(D[3].slots) = 1
    /\ \E i \in DOMAIN conflicts : conflicts[i].cls = "HEAVY"

----------------------------------------------------------------------------
(* C7 *)

ThreeSmallOnly ==
    /\ Len(aircraftList) = 3
    /\ \A i \in DOMAIN aircraftList : aircraftList[i].cls = "SMALL"
    /\ NoActiveOverride

\* C7 as stated (three SMALL): H1 is SPLIT with the first two aircraft, H2 is a
\* SMALL1 bay with the third, no conflict.
C7_ThirdSmallInSmall1 ==
    (pc = "done" /\ ThreeSmallOnly) =>
        /\ H[1] = [kind |-> "SPLIT", slots |-> <<aircraftList[1], aircraftList[2]>>]
        /\ H[2] = [kind |-> "SMALL1", slots |-> <<aircraftList[3]>>]
        /\ conflicts = <<>>

\* C7 amended: H1 is SPLIT with the first two aircraft, H2 is SPLIT too and
\* holds the third aircraft alone, no conflict.
C7_ThirdSmallInSplit ==
    (pc = "done" /\ ThreeSmallOnly) =>
        /\ H[1] = [kind |-> "SPLIT", slots |-> <<aircraftList[1], aircraftList[2]>>]
        /\ H[2] = [kind |-> "SPLIT", slots |-> <<aircraftList[3]>>]
        /\ conflicts = <<>>

C7_Witness == pc = "done" /\ ThreeSmallOnly /\ Len(H[2].slots) = 1

----------------------------------------------------------------------------
(* C8 *)

HeavyListed == Filter(aircraftList, "HEAVY")

\* C8 (three HEAVY, and k > 2 HEAVY): with no active override and more than two
\* HEAVY aircraft, H1 holds the first and H2 the second in list order, and the
\* HEAVY conflicts are the k-2 others.
C8_HeaviesBeyondTwoConflict ==
    (pc = "done" /\ NoActiveOverride /\ Len(HeavyListed) > 2) =>
        /\ H[1] = [kind |-> "HEAVY", slots |-> <<HeavyListed[1]>>]
        /\ H[2] = [kind |-> "HEAVY", slots |-> <<HeavyListed[2]>>]
        /\ Filter(conflicts, "HEAVY") = SubSeq(HeavyListed, 3, Len(HeavyListed))

\* exactly three HEAVY and nothing else: one conflict, the third
C8_Witness ==
    /\ pc = "done" /\ NoActiveOverride
    /\ Len(aircraftList) = 3 /\ Len(HeavyListed) = 3
    /\ conflicts = <<aircraftList[3]>>

----------------------------------------------------------------------------
(* C9 *)

BayIds == <<"H1", "H2", "D1", "D2", "D3">>

\* the kinds the bay rules allow in each bay
AllowedKinds(slot) ==
    IF IsHSlot(slot) THEN {"EMPTY", "HEAVY", "M757", "SMALL1", "SPLIT"}
    ELSE IF slot = "D3" THEN {"EMPTY", "M757", "SMALL1"}
    ELSE {"EMPTY", "M757", "SMALL1", "SPLIT"}

\* the ways to give each bay a kind under the bay rules: HEAVY only in H1/H2,
\* D3 never SPLIT, at most one of D1/D2 SPLIT
BayConfigs ==
    { cfg \in [1..5 -> {"EMPTY", "HEAVY", "M757", "SMALL1", "SPLIT"}] :
        /\ \A b \in 1..5 : cfg[b] \in AllowedKinds(BayIds[b])
        /\ ~(cfg[3] = "SPLIT" /\ cfg[4] = "SPLIT") }

\* what each way holds: <<bays for a HEAVY, bays for an M757, places for SMALL>>
BayProfiles ==
    { << Cardinality({b \in 1..5 : cfg[b] = "HEAVY"}),
         Cardinality({b \in 1..5 : cfg[b] = "M757"}),
         Cardinality({b \in 1..5 : cfg[b] = "SMALL1"})
           + 2 * Cardinality({b \in 1..5 : cfg[b] = "SPLIT"}) >> : cfg \in BayConfigs }

\* an assignment of nh HEAVY, nm M757 and ns SMALL aircraft to the five bays
\* exists under the bay rules
Placeable(nh, nm, ns) ==
    \E t \in BayProfiles : t[1] = nh /\ t[2] = nm /\ t[3] >= ns

AllPlaceable ==
    Placeable(Len(Filter(aircraftList, "HEAVY")), Len(Filter(aircraftList, "M757")),
              Len(Filter(aircraftList, "SMALL")))

NoRoomForSmall ==
    /\ \A b \in 1..5 : slotToBay(BayIds[b], H, D).kind # "EMPTY"
    /\ \A b \in 1..4 : LET bay == slotToBay(BayIds[b], H, D)
                       IN bay.kind = "SPLIT" => Len(bay.slots) = SplitCapacity

\* C9 as stated (conflicts are irreconcilable): with no active override an
\* aircraft is a conflict only if no assignment of all active aircraft to the
\* five bays satisfies the bay rules.
C9_ConflictOnlyIfUnplaceable ==
    (pc = "done" /\ NoActiveOverride /\ conflicts # <<>>) => ~AllPlaceable

\* C9 amended: with no active override a HEAVY or M757 aircraft is a conflict
\* only if no such assignment exists; a SMALL aircraft is a conflict only if
\* no bay is EMPTY and no SPLIT bay has fewer than two occupants, which the
\* greedy order can reach although an assignment exists.
C9_ConflictOnlyIfNoRoomLeft ==
    (pc = "done" /\ NoActiveOverride) =>
        /\ (\E i \in DOMAIN conflicts : conflicts[i].cls \in {"HEAVY", "M757"}) => ~AllPlaceable
        /\ (\E i \in DOMAIN conflicts : conflicts[i].cls = "SMALL") => NoRoomForSmall

\* a SMALL is a conflict though all aircraft could be placed
C9_Witness ==
    /\ pc = "done" /\ NoActiveOverride
    /\ \E i \in DOMAIN conflicts : conflicts[i].cls = "SMALL"
    /\ AllPlaceable

----------------------------------------------------------------------------
(* C10 *)

\* the array holds one project with delivery >= induction and hours > 0, and
\* it is the only project of the page
SingleValid(arr, others) ==
    /\ Len(arr) = 1
    /\ others = <<>>
    /\ projectsActual = <<>>
    /\ arr[1].delivery >= arr[1].induction
    /\ arr[1].hours > 0

\* C10 (weekly load conservation): for a single confirmed or potential project
\* with delivery >= induction and hours H > 0, the weekly series that
\* computeWeeklyLoadsDetailed builds over the labels of getWeekList sums to H.
C10_WeeklyLoadConserved ==
    loadPc = "ready" =>
        /\ SingleValid(projects, potentialProjects)
              => RatEq(RatSum(dataWConfirmed), <<projects[1].hours, 1>>)
        /\ SingleValid(potentialProjects, projects)
              => RatEq(RatSum(dataWPotential), <<potentialProjects[1].hours, 1>>)

\* a project that starts on a Monday: its hours are all in the series
C10_MondayStartConserved ==
    /\ loadPc = "ready"
    /\ SingleValid(projects, potentialProjects)
    /\ projects[1].induction % 7 = 0
    /\ Len(weekLabels) >= 2
    /\ RatEq(RatSum(dataWConfirmed), <<projects[1].hours, 1>>)

----------------------------------------------------------------------------
(* C11 *)

\* C11 (monthly load conservation): for a single confirmed or potential
\* project with delivery >= induction and hours H > 0, the monthly series that
\* computeMonthlyLoadsDetailed builds over the labels of getMonthList sums to H.
C11_MonthlyLoadConserved ==
    loadPc = "ready" =>
        /\ SingleValid(projects, potentialProjects)
              => RatEq(RatSum(dataMConfirmed), <<projects[1].hours, 1>>)
        /\ SingleValid(potentialProjects, projects)
              => RatEq(RatSum(dataMPotential), <<potentialProjects[1].hours, 1>>)

\* a project that spans the turn of the month has all its hours in two months
C11_TwoMonthsConserved ==
    /\ loadPc = "ready"
    /\ SingleValid(projects, potentialProjects)
    /\ Len(monthLabels) = 2
    /\ dataMConfirmed[1] # Zero /\ dataMConfirmed[2] # Zero
    /\ RatEq(RatSum(dataMConfirmed), <<projects[1].hours, 1>>)

----------------------------------------------------------------------------
(* C12 *)

\* the one confirmed project is inducted on a Monday, delivered on the Friday
\* of that week and carries 100 hours
MondayToFriday ==
    /\ Len(projects) = 1
    /\ projects[1].induction % 7 = 0
    /\ projects[1].delivery = projects[1].induction + 4
    /\ projects[1].hours = 100

\* C12 (single-week example): a project inducted on a Monday and delivered on
\* the Friday of the same week with 100 hours has all 100 hours in the week
\* whose label is that Monday and nothing in any other week.
C12_SingleWeekHoldsAll ==
    (loadPc = "ready" /\ MondayToFriday) =>
        /\ \E w \in DOMAIN weekLabels : weekLabels[w] = projects[1].induction
        /\ \A w \in DOMAIN weekLabels :
              RatEq(dataWConfirmed[w],
                    IF weekLabels[w] = projects[1].induction THEN <<100, 1>> ELSE Zero)

\* the project's week is the second of three labelled weeks
C12_Witness ==
    /\ loadPc = "ready" /\ MondayToFriday
    /\ Len(weekLabels) = 3
    /\ weekLabels[2] = projects[1].induction
    /\ RatEq(dataWConfirmed[2], <<100, 1>>)

----------------------------------------------------------------------------
(* C13 *)

\* some labelled week [Monday, Sunday] contains day d
Covered(d) == \E w \in DOMAIN weekLabels : weekLabels[w] <= d /\ d <= weekLabels[w] + 6

ValidDates(p) == p.delivery >= p.induction

EvenlySpaced == \A w \in 1..(Len(weekLabels) - 1) : weekLabels[w + 1] = weekLabels[w] + 7

\* the first label is the Monday on or before the earliest induction
StartsAtFirstMonday ==
    /\ weekLabels # <<>>
    /\ weekLabels[1] % 7 = 0
    /\ \A i \in DOMAIN AllProjects : weekLabels[1] <= AllProjects[i].induction
    /\ \E i \in DOMAIN AllProjects : AllProjects[i].induction <= weekLabels[1] + 6

----------------------------------------------------------------------------
(* C14, C15 *)

\* no period's utilization is higher after the step than before
UtilizationNotRaised ==
    /\ DOMAIN utilData' = DOMAIN utilData
    /\ \A i \in DOMAIN utilData : RatLeq(utilData'[i], utilData[i])

currentHeadcount == headcountOf(departmentCapacities, currentKey)

\* C14 (utilization is monotone in productivity): a step that raises the
\* productivity factor and leaves load, headcount and hours per FTE as they
\* are raises no period's utilization.
C14_MonotoneInProductivity ==
    [][ ( /\ PRODUCTIVITY_FACTOR' > PRODUCTIVITY_FACTOR
          /\ UNCHANGED <<HOURS_PER_FTE, currentKey, currentPeriod, showPotential>> )
        => UtilizationNotRaised ]_vars

\* the factor was raised to 1.00 for a staffed department with load
C14_Witness ==
    /\ lastEvent.target = "prodFactor"
    /\ PRODUCTIVITY_FACTOR = 100
    /\ currentHeadcount > 0
    /\ \E i \in DOMAIN utilData : utilData[i][1] > 0

\* C15 as stated (utilization is monotone in headcount): with the same load,
\* factor and hours per FTE, a department with a larger headcount, from any
\* non-negative headcount on, has no period with a higher utilization.
C15_MonotoneInHeadcount ==
    [][ ( /\ headcountOf(departmentCapacities, currentKey') > currentHeadcount
          /\ UNCHANGED <<PRODUCTIVITY_FACTOR, HOURS_PER_FTE, currentPeriod, showPotential>> )
        => UtilizationNotRaised ]_vars

\* C15 amended: the same from any positive headcount on; from headcount 0,
\* where utilization is reported as 0, a larger headcount raises it.
C15_MonotoneInPositiveHeadcount ==
    [][ ( /\ headcountOf(departmentCapacities, currentKey') > currentHeadcount
          /\ currentHeadcount > 0
          /\ UNCHANGED <<PRODUCTIVITY_FACTOR, HOURS_PER_FTE, currentPeriod, showPotential>> )
        => UtilizationNotRaised ]_vars

\* the department shown has the larger headcount of two staffed departments
\* and a period with load
C15_Witness ==
    /\ lastEvent.target = "disciplineSelect"
    /\ \E i \in DOMAIN departmentCapacities :
          /\ departmentCapacities[i].headcount > 0
          /\ departmentCapacities[i].headcount < currentHeadcount
    /\ \E i \in DOMAIN utilData : utilData[i][1] > 0

----------------------------------------------------------------------------
(* C16 *)

Nearest(v, lo, hi) == IF v < lo THEN lo ELSE IF v > hi THEN hi ELSE v

----------------------------------------------------------------------------
(* C17 *)

\* the actual projects that have started: induction on or before today
StartedActual == SelectSeq(projectsActual, LAMBDA p : p.induction <= Today)

\* C17 (actual projects that have not started): an actual project whose
\* induction date is after today contributes nothing to the weekly and monthly
\* actual series; every period's value is what the started projects alone give.
C17_FutureActualContributesNothing ==
    loadPc = "ready" =>
        /\ dataWActual = computeWeeklyLoadsActual(StartedActual, weekLabels)
        /\ dataMActual = computeMonthlyLoadsActual(StartedActual, monthLabels)

\* the only actual project starts after today and the series carry its hours
C17_FutureActualCounted ==
    /\ loadPc = "ready"
    /\ Len(projectsActual) = 1
    /\ projectsActual[1].induction > Today
    /\ RatEq(RatSum(dataWActual), <<projectsActual[1].hours, 1>>)
    /\ RatEq(RatSum(dataMActual), <<projectsActual[1].hours, 1>>)

----------------------------------------------------------------------------
(* C18 *)

\* the project an object of the active set was built from
ProjectOf(e) == (projects \o potentialProjects)[e.id]

\* a record the planner should not see: a date that does not parse, delivery
\* before induction, or a model of no size class
InvalidRecord(p) ==
    \/ p.induction = InvalidDate
    \/ p.delivery = InvalidDate
    \/ p.delivery < p.induction
    \/ classifyAircraft(p.aircraftModel) = NoClass

\* C18 (invalid records): a project whose delivery date is before its induction
\* date, whose dates do not parse or whose model has no size class is in the
\* active set of no period, so it is in no bay and not in the conflicts.
C18_InvalidRecordsExcluded ==
    pc # "idle" =>
        \A e \in Range(aircraftList) \cup Range(Occupants) \cup Range(conflicts) :
            ~InvalidRecord(ProjectOf(e))

\* a project delivered before its induction ends up parked in a bay
C18_InvertedDatesParked ==
    /\ pc = "done"
    /\ \E e \in Range(Occupants) :
          /\ ProjectOf(e).induction # InvalidDate
          /\ ProjectOf(e).delivery # InvalidDate
          /\ ProjectOf(e).delivery < ProjectOf(e).induction

----------------------------------------------------------------------------
(* C19 *)

\* date a is on or before date b; no comparison with an invalid date is true
OnOrBefore(a, b) == a # InvalidDate /\ b # InvalidDate /\ a <= b

\* the membership condition on one project for the period drawn
Member(p) ==
    /\ ~p.offsite
    /\ OnOrBefore(p.induction, periodBoundsForIndex(periodIndex).end)
    /\ OnOrBefore(periodBoundsForIndex(periodIndex).start, p.delivery)
    /\ classifyAircraft(p.aircraftModel) \in Classes

\* the positions, in projects followed by potentialProjects, of the projects
\* that are to be in the active set
MemberIds ==
    {k \in DOMAIN projects : Member(projects[k])}
    \cup {Len(projects) + k : k \in {j \in DOMAIN potentialProjects :
                                       planIncPot /\ Member(potentialProjects[j])}}

\* C19 (active-set membership): a project is in the active set of a period
\* exactly when it is not offsite, its induction is on or before the period end,
\* its delivery is on or after the period start and its model classifies as
\* HEAVY, M757 or SMALL; confirmed projects always, potential projects only with
\* includePotential, actual projects never; each such project is there once,
\* with its class.
C19_ActiveSetMembership ==
    pc # "idle" =>
        /\ {e.id : e \in Range(aircraftList)} = MemberIds
        /\ Len(aircraftList) = Cardinality(MemberIds)
        /\ \A e \in Range(aircraftList) : e.cls = classifyAircraft(ProjectOf(e).aircraftModel)

\* with includePotential, the fleet and a potential project make the active
\* set of the period, and the period is not the one where everything overlaps
C19_Witness ==
    /\ pc = "done"
    /\ planIncPot
    /\ Len(projects) = 3
    /\ Len(potentialProjects) = 1
    /\ Len(aircraftList) = 4
    /\ periodIndex = 2

\* a project that is over before the period, an offsite one or an actual one
\* is left out
C19_LeftOut ==
    /\ pc = "done"
    /\ Len(projects) = 4
    /\ Len(aircraftList) = 3
    /\ classifyAircraft(projects[4].aircraftModel) \in Classes
    /\ ~projects[4].offsite
    /\ OnOrBefore(projects[4].delivery, periodBoundsForIndex(periodIndex).start - 1)

----------------------------------------------------------------------------
(* C20 *)

\* the department of row r has no capacity per workday and a shortfall
ZeroCapacityShortfall(r) ==
    /\ capPerDay(r.key, impactResult.otPct)[1] = 0
    /\ r.short[1] > 0

\* C20 (zero-capacity slip): in the what-if result, a department whose capacity
\* per workday is 0 and whose shortfall is greater than 0 is reported with an
\* infinite or unresolved slip, not with a finite number of workdays.
C20_ZeroCapacitySlipUnresolved ==
    impactResult.kind = "result" =>
        \A i \in DOMAIN impactResult.rows :
            ZeroCapacityShortfall(impactResult.rows[i]) => impactResult.rows[i].slip \notin Nat

\* a department without staff and with a shortfall is shown with slip 0 and the
\* delivery date does not move
C20_ZeroSlipReported ==
    /\ impactResult.kind = "result"
    /\ \E i \in DOMAIN impactResult.rows :
          /\ ZeroCapacityShortfall(impactResult.rows[i])
          /\ impactResult.rows[i].slip = 0
    /\ impactResult.newEnd = impactResult.targetEnd

\* a department with staff and a shortfall gets a slip of whole workdays
C20_PositiveSlipReported ==
    /\ impactResult.kind = "result"
    /\ impactResult.slipDays > 0
    /\ impactResult.newEnd > impactResult.targetEnd

----------------------------------------------------------------------------
(* C21 *)

\* C21 (what-if projected hours): for every scope multiplier m >= 0 entered,
\* m = 0 included, each department's projected hours equal the source
\* project's hours for the department times m.
C21_ProjectedHoursScaled ==
    (impactResult.kind = "result" /\ ~impactResult.asked.mult.nan
                                  /\ impactResult.asked.mult.v >= 0) =>
        \A i \in DOMAIN impactResult.rows :
            impactResult.rows[i].h
                = <<impactResult.asked.hrs[i] * impactResult.asked.mult.v, 1>>

\* a multiplier of 0 was entered and a department is projected with hours
C21_ZeroMultiplierIgnored ==
    /\ impactResult.kind = "result"
    /\ ~impactResult.asked.mult.nan
    /\ impactResult.asked.mult.v = 0
    /\ \E i \in DOMAIN impactResult.rows : impactResult.rows[i].h[1] > 0

----------------------------------------------------------------------------
(* C22 *)

\* C22 (what-if is advisory): a run of the what-if calculation, with any
\* parameters and any number of times, leaves the project lists, the department
\* list, the parameters and every precomputed load series unchanged, and with
\* them the utilization shown in the chart and the hangar plan.
C22_WhatIfLeavesDataUnchanged ==
    [][impactResult' # impactResult =>
          /\ loadVars' = loadVars
          /\ departmentCapacities' = departmentCapacities
          /\ PRODUCTIVITY_FACTOR' = PRODUCTIVITY_FACTOR
          /\ HOURS_PER_FTE' = HOURS_PER_FTE
          /\ currentKey' = currentKey /\ currentPeriod' = currentPeriod
          /\ showPotential' = showPotential
          /\ utilData' = utilData
          /\ hangarVars' = hangarVars]_vars

\* a run in the monthly view that found a shortfall and moved the delivery
C22_Witness ==
    /\ impactResult.kind = "result"
    /\ currentPeriod = "monthly"
    /\ \E i \in DOMAIN impactResult.rows : impactResult.rows[i].short[1] > 0
    /\ impactResult.slipDays > 0
    /\ dataWConfirmed # <<>>

----------------------------------------------------------------------------
(* C23 *)

\* the rows of the table with the key (number, dataset)
RowsWithKey(num, ds) == {r \in table : r.number = num /\ r.dataset = ds}

\* no two rows share (number, dataset)
KeysUnique == \A r \in table, q \in table : (r.number = q.number /\ r.dataset = q.dataset) => r = q

\* C23 (upsert by number and dataset): a call of upsert_project without an id,
\* with any project dict, succeeds; afterwards the table holds exactly one row
\* with the dict's (number, dataset), carrying the dict's values, it has a row more
\* only if no row had that key before, and no two rows share a key
\* (so that repeating the call changes nothing).
C23_UpsertSucceedsByKey ==
    (lastCall.op = "upsert_project" /\ lastCall.p.id = 0) =>
        LET num == getOr(lastCall.p.number, "")
            ds == getOr(lastCall.p.dataset, "confirmed")
            had == {r \in lastCall.before : r.number = num /\ r.dataset = ds}
        IN /\ lastCall.outcome = "ok"
           /\ Cardinality(RowsWithKey(num, ds)) = 1
           /\ \A r \in RowsWithKey(num, ds) : r.customer = getOr(lastCall.p.customer, "")
           /\ Cardinality(table) = Cardinality(lastCall.before) + (IF had = {} THEN 1 ELSE 0)
           /\ KeysUnique

\* a dict without number was upserted a second time and the call failed on the
\* unique index
C23_RepeatedCallFails ==
    /\ lastCall.op = "upsert_project"
    /\ lastCall.p.id = 0
    /\ lastCall.p.number = None
    /\ lastCall.p.dataset \in Datasets
    /\ lastCall.outcome = "IntegrityError: UNIQUE constraint failed"
    /\ table = lastCall.before

\* a dict with number and dataset updated the row it names
C23_UpdatedInPlace ==
    /\ lastCall.op = "upsert_project"
    /\ lastCall.p.id = 0
    /\ lastCall.outcome = "ok"
    /\ Cardinality(table) = Cardinality(lastCall.before)
    /\ table # lastCall.before

----------------------------------------------------------------------------
(* C30 *)

\* the rows a dataset holds, without their ids
Stored(tbl, ds) == {[number |-> r.number, customer |-> r.customer] : r \in {q \in tbl : q.dataset = ds}}

\* the rows given to replace_dataset, as they are to be stored
Given(rows) == {[number |-> getOr(rows[i].number, ""), customer |-> getOr(rows[i].customer, "")] :
                  i \in DOMAIN rows}

\* C30 (atomic replacement): when replace_dataset(dataset, rows) is over, it
\* has returned with the dataset holding exactly the given rows and every other
\* dataset unchanged; the DELETE on the outer connection and the writes
\* of upsert_project on its own connection do not block each other; if the
\* call fails, the table is as before the call.
C30_ReplaceIsAtomic ==
    (lastCall.op = "replace_dataset" /\ storePc = "idle") =>
        /\ lastCall.outcome # "OperationalError: database is locked"
        /\ lastCall.outcome = "ok" =>
              /\ Stored(table, lastCall.dataset) = Given(lastCall.rows)
              /\ {r \in table : r.dataset # lastCall.dataset}
                    = {r \in lastCall.before : r.dataset # lastCall.dataset}
        /\ lastCall.outcome # "ok" => table = lastCall.before

\* a replacement by one row ended with "database is locked" and the dataset
\* kept its old rows
C30_LockedAndRolledBack ==
    /\ lastCall.op = "replace_dataset"
    /\ storePc = "idle"
    /\ Len(lastCall.rows) = 1
    /\ lastCall.outcome = "OperationalError: database is locked"
    /\ Stored(table, lastCall.dataset) # {}
    /\ table = lastCall.before

\* a replacement by no rows emptied the dataset
C30_EmptiedDataset ==
    /\ lastCall.op = "replace_dataset"
    /\ storePc = "idle"
    /\ lastCall.outcome = "ok"
    /\ Stored(lastCall.before, lastCall.dataset) # {}
    /\ Stored(table, lastCall.dataset) = {}

----------------------------------------------------------------------------
(* C24 *)

\* the five bays: H1, H2, D1, D2, D3
AllBays == H \o D

\* C24 (bays are write-once within a period): in every step of
\* assignForPeriod a bay whose kind is not EMPTY keeps its kind, a bay that
\* leaves EMPTY becomes HEAVY, M757, SMALL1 or SPLIT, the occupants a bay has
\* stay where they are (none removed or replaced), only a SPLIT bay gets
\* further occupants, and a SPLIT bay never has more than 2.
C24_BaysWriteOnce ==
    [][\A k \in 1..5 :
          LET old == AllBays[k]
              new == AllBays'[k]
          IN /\ old.kind # "EMPTY" => new.kind = old.kind
             /\ new.kind \in {"EMPTY", "HEAVY", "M757", "SMALL1", "SPLIT"}
             /\ Len(new.slots) >= Len(old.slots)
             /\ SubSeq(new.slots, 1, Len(old.slots)) = old.slots
             /\ old.kind \in {"HEAVY", "M757", "SMALL1"} => new.slots = old.slots
             /\ new.kind = "SPLIT" => Len(new.slots) <= 2]_vars

\* a finished plan with a full SPLIT bay, an M757 bay, a single small and a conflict
C24_Witness ==
    /\ pc = "done"
    /\ \E k \in 1..5 : AllBays[k].kind = "SPLIT" /\ Len(AllBays[k].slots) = 2
    /\ \E k \in 1..5 : AllBays[k].kind = "M757"
    /\ \E k \in 1..5 : AllBays[k].kind = "SMALL1"
    /\ conflicts # <<>>

----------------------------------------------------------------------------
(* C25 *)

\* overrides j and k, j listed first, are active, pin two different active
\* aircraft to the same bay, and no other override names either aircraft or
\* targets the bay
RivalPins(j, k) ==
    /\ j < k
    /\ overrides[j].slot = overrides[k].slot
    /\ overrides[j].number # overrides[k].number
    /\ OverrideActive(j) /\ OverrideActive(k)
    /\ FirstListed(overrides[j].number) # 0
    /\ FirstListed(overrides[k].number) # 0
    /\ \A i \in DOMAIN overrides :
          i \notin {j, k} =>
              /\ overrides[i].slot # overrides[j].slot
              /\ overrides[i].number \notin {overrides[j].number, overrides[k].number}

\* the pin of override k names a HEAVY and a slot that is not H1 or H2
HeavyOffH(k) == Named(k).cls = "HEAVY" /\ ~IsHSlot(overrides[k].slot)

Parked(p) == Count(p, Occupants) > 0

\* C25 as stated (pin conflicts are reported and terminal): of two active
\* overrides pinning two different active aircraft to the same bay, the aircraft
\* of the first holds the bay and the other aircraft is in conflicts and in no
\* bay.
C25_FirstPinHoldsBay ==
    pc = "done" =>
        \A j, k \in DOMAIN overrides :
            RivalPins(j, k) =>
                /\ slotToBay(overrides[j].slot, H, D).slots = <<Named(j)>>
                /\ InConflicts(Named(k))
                /\ ~Parked(Named(k))

\* C25 amended: the same when the first pin is not a HEAVY on a D slot; and at
\* every moment of assignForPeriod an aircraft in the conflicts list, a
\* rejected pin included, is in no bay.
C25_FirstAcceptablePinHoldsBay ==
    /\ \A i \in DOMAIN conflicts : ~Parked(conflicts[i])
    /\ pc = "done" =>
          \A j, k \in DOMAIN overrides :
              /\ (RivalPins(j, k) /\ ~HeavyOffH(j)) =>
                    /\ slotToBay(overrides[j].slot, H, D).slots = <<Named(j)>>
                    /\ InConflicts(Named(k))
                    /\ ~Parked(Named(k))
              /\ (RivalPins(j, k) /\ HeavyOffH(j)) =>
                    /\ InConflicts(Named(j))
                    /\ ~Parked(Named(j))

\* two rivals for a bay: the second is a conflict although a bay that would
\* take it is EMPTY
C25_Witness ==
    /\ pc = "done"
    /\ \E j, k \in DOMAIN overrides :
          /\ RivalPins(j, k)
          /\ ~HeavyOffH(j)
          /\ slotToBay(overrides[j].slot, H, D).slots = <<Named(j)>>
          /\ InConflicts(Named(k))
          /\ Named(k).cls = "SMALL"
          /\ H[1].kind = "EMPTY"

----------------------------------------------------------------------------
(* C26 *)

\* the bays in the order an M757 tries them
M757Preference == <<"D2", "D1", "H1", "H2", "D3">>

\* positions in M757Preference of the bays that are EMPTY now
EmptyPreferred == {i \in 1..5 : slotToBay(M757Preference[i], H, D).kind = "EMPTY"}

\* C26 (M757 placement order): every step that takes an aircraft off the list
\* of unpinned M757 happens when no HEAVY is left to handle, takes the M757
\* listed first, and puts it alone, as kind M757, in the first of D2, D1, H1,
\* H2, D3 that is EMPTY at that moment, all other bays and the conflicts
\* untouched; it appends the aircraft to conflicts, all bays untouched, exactly
\* when none of the five bays is EMPTY.
C26_M757PlacementOrder ==
    [][(m757s # <<>> /\ m757s' # m757s) =>
          LET p == Head(m757s) IN
          /\ heavies = <<>>
          /\ m757s' = Tail(m757s)
          /\ p.cls = "M757"
          /\ \A i \in 2..Len(m757s) : p.id < m757s[i].id
          /\ IF EmptyPreferred = {}
             THEN /\ conflicts' = Append(conflicts, p)
                  /\ H' = H /\ D' = D
             ELSE LET first == CHOOSE i \in EmptyPreferred :
                                  \A j \in EmptyPreferred : i <= j
                  IN /\ conflicts' = conflicts
                     /\ \A i \in 1..5 :
                           slotToBay(M757Preference[i], H', D') =
                               IF i = first
                               THEN [kind |-> "M757", slots |-> <<p>>]
                               ELSE slotToBay(M757Preference[i], H, D)]_vars

\* without overrides: D3, the last choice, holds an M757 and a further M757 is a conflict
C26_Witness ==
    /\ overrides = <<>>
    /\ D[3].kind = "M757"
    /\ D[2].kind = "M757"
    /\ \E i \in DOMAIN conflicts : conflicts[i].cls = "M757"

----------------------------------------------------------------------------
(* C27 *)

\* the bay holds exactly one aircraft and it is of class cls
HoldsOne(bay, cls) == Len(bay.slots) = 1 /\ bay.slots[1].cls = cls

\* C27 (kind/occupant consistency): when assignForPeriod returns, a HEAVY bay
\* holds exactly one HEAVY, an M757 bay exactly one M757, a SMALL1 bay exactly
\* one SMALL, a SPLIT bay 0 to 2 aircraft, all SMALL, and an EMPTY bay none;
\* no bay has another kind.
C27_KindMatchesOccupants ==
    pc = "done" =>
        \A k \in 1..5 :
            LET bay == AllBays[k] IN
            CASE bay.kind = "HEAVY" -> HoldsOne(bay, "HEAVY")
              [] bay.kind = "M757" -> HoldsOne(bay, "M757")
              [] bay.kind = "SMALL1" -> HoldsOne(bay, "SMALL")
              [] bay.kind = "SPLIT" ->
                    /\ Len(bay.slots) \in 0..2
                    /\ \A i \in DOMAIN bay.slots : bay.slots[i].cls = "SMALL"
              [] bay.kind = "EMPTY" -> bay.slots = <<>>
              [] OTHER -> FALSE

\* a returned plan where the bay of an active override is of kind M757 and
\* another bay holds a single SMALL or a HEAVY
C27_WitnessPinned ==
    /\ pc = "done"
    /\ overrides # <<>>
    /\ \E k \in DOMAIN overrides :
          /\ OverrideActive(k)
          /\ slotToBay(overrides[k].slot, H, D).kind = "M757"
    /\ \E k \in 1..5 : AllBays[k].kind \in {"SMALL1", "HEAVY"}

----------------------------------------------------------------------------
(* C28 *)

\* the five cells of the returned plan: H1, H2, D1, D2, D3
Cells == returned(H, D, conflicts).H \o returned(H, D, conflicts).D

\* C28 (reported emptiness matches occupancy): in the returned plan a cell has
\* class 'empty' exactly when its bay holds no aircraft, and every cell of
\* another class names at least one aircraft.
C28_EmptyCellIffNoOccupant ==
    pc = "done" =>
        \A k \in 1..5 :
            /\ (Cells[k].cls = "empty") <=> (AllBays[k].slots = <<>>)
            /\ Cells[k].cls # "empty" => Cells[k].tips # <<>>

----------------------------------------------------------------------------
(* C29 *)

\* what a plan <<H, D, conflicts>> shows without naming aircraft: kind and
\* number of occupants of H1, H2, D1, D2, D3, and the number of conflicts
Shape(r) ==
    [bays |-> [k \in 1..5 |-> [kind |-> (r[1] \o r[2])[k].kind,
                               count |-> Len((r[1] \o r[2])[k].slots)]],
     conflicts |-> Len(r[3])]

\* the list with its elements in the order q
Permuted(list, q) == [i \in DOMAIN list |-> list[q[i]]]

DistinctNumbers(list) ==
    \A i, j \in DOMAIN list : i # j => list[i].number # list[j].number

\* C29 (order independence): the plan returned for an aircraft list with
\* pairwise distinct numbers is the one assignForPeriod computes for the list,
\* and for every permutation of the list, the same period and the same
\* overrides, assignForPeriod gives the same number of conflicts and the same
\* kind and number of occupants in each of the five bays.
C29_OrderIndependent ==
    (pc = "done" /\ DistinctNumbers(aircraftList)) =>
        /\ <<H, D, conflicts>> = assignForPeriod(aircraftList, overrides, periodIndex)
        /\ \A q \in Permutations(DOMAIN aircraftList) :
              Shape(assignForPeriod(Permuted(aircraftList, q), overrides, periodIndex))
                  = Shape(<<H, D, conflicts>>)

\* a returned plan for a mixed list of MaxOrder aircraft, two of them pinned,
\* with a conflict and a SPLIT bay in use
C29_Witness ==
    /\ pc = "done"
    /\ DistinctNumbers(aircraftList)
    /\ Len(aircraftList) = MaxOrder
    /\ \A c \in Classes : \E i \in DOMAIN aircraftList : aircraftList[i].cls = c
    /\ Len(overrides) = 2
    /\ overrides[1].number # overrides[2].number
    /\ conflicts # <<>>
    /\ \E k \in 1..5 : AllBays[k].kind = "SPLIT" /\ AllBays[k].slots # <<>>

============================================================================
